---- MODULE Spec2Model ----
(***************************************************************************)
(* The Noir Chronicles: the AI service (services/geminiService.ts), the    *)
(* App component's session state and handlers (App.tsx), and the JSON      *)
(* conversions both rest on.                                               *)
(*                                                                         *)
(* Texts are sequences of characters; a character is a one-character       *)
(* string.  SANY's lexer rejects a backquote inside a string literal, so    *)
(* the backquote character is the token BT, written ^ in text literals.     *)
(***************************************************************************)
EXTENDS Integers, Sequences, FiniteSets, TLC

\* ------------------------------------------------------------------------
\* Bounds of the model
\* ------------------------------------------------------------------------

\* Longest free-form raw text handed to safeJsonParse.
MaxFreeLen == 3

\* Calls the service's driver makes in one run.
MaxCalls == 3

\* App: calls of handleUserAction, calls of startInvestigation, the last
\* clock value, the items of an inventory.
MaxTurns == 2

MaxStarts == 2

\* App: calls of handleSave, of handleLoad and of resetToMenu.
MaxSaves == 1

MaxLoads == 1

MaxQuits == 1

MaxClock == 1

MaxItems == 1

\* App: calls of handleGenerateSummary and of handleFetchNews.
MaxSummaries == 1

MaxLookups == 2

\* How much of the earlier save a cut-short record keeps.
TruncatedLen == 40

\* TypewriterText: changes of its text prop in one run.
MaxChanges == 2

\* ------------------------------------------------------------------------
\* Characters and texts
\* ------------------------------------------------------------------------

BT == "<backquote>"

Text(str) == [i \in 1..Len(str) |-> IF SubSeq(str, i, i) = "^" THEN BT ELSE SubSeq(str, i, i)]

Digits == <<"0", "1", "2", "3", "4", "5", "6", "7", "8", "9">>

IsDigit(c) == \E d \in 1..10 : Digits[d] = c

DigitVal(c) == (CHOOSE d \in 1..10 : Digits[d] = c) - 1

\* String.prototype.trim's white space (the part of it the model's texts use).
JsWhiteSpace == {" ", "\t", "\n", "\r", "\f"}

\* JSON's insignificant white space.
JsonWhiteSpace == {" ", "\t", "\n", "\r"}

\* String.prototype.trim: the text between its first and its last character
\* that is not white space.
trim(s) ==
    LET Between(first, cut) ==
            IF first > Len(s) THEN <<>> ELSE SubSeq(s, first, Len(s) - cut)
    IN  Between(CHOOSE i \in 1..(Len(s) + 1) :
                    /\ i = Len(s) + 1 \/ s[i] \notin JsWhiteSpace
                    /\ \A m \in 1..(i - 1) : s[m] \in JsWhiteSpace,
                CHOOSE k \in 0..Len(s) :
                    /\ k = Len(s) \/ s[Len(s) - k] \notin JsWhiteSpace
                    /\ \A m \in 0..(k - 1) : s[Len(s) - m] \in JsWhiteSpace)

\* StartsAt(s, i, pat): pat occurs in s at the 1-based position i.
StartsAt(s, i, pat) ==
    /\ i >= 1
    /\ i + Len(pat) - 1 <= Len(s)
    /\ Len(pat) = 0 \/ s[i] = pat[1]
    /\ SubSeq(s, i, i + Len(pat) - 1) = pat

includes(s, pat) == \E i \in 1..(Len(s) + 1) : StartsAt(s, i, pat)

\* String.prototype.indexOf / lastIndexOf of one character: 0-based, -1 when absent.
indexOf(s, c) ==
    IF \E i \in 1..Len(s) : s[i] = c
    THEN (CHOOSE i \in 1..Len(s) : s[i] = c /\ \A j \in 1..(i - 1) : s[j] # c) - 1
    ELSE -1

lastIndexOf(s, c) ==
    IF \E i \in 1..Len(s) : s[i] = c
    THEN (CHOOSE i \in 1..Len(s) : s[i] = c /\ \A j \in (i + 1)..Len(s) : s[j] # c) - 1
    ELSE -1

Clamp(n, lo, hi) == IF n < lo THEN lo ELSE IF n > hi THEN hi ELSE n

\* String.prototype.substring(a, b), 0-based: both ends are clamped to
\* [0, length] and swapped when a > b.
substring(s, a, b) ==
    LET ca == Clamp(a, 0, Len(s))
        cb == Clamp(b, 0, Len(s))
        lo == IF ca <= cb THEN ca ELSE cb
        hi == IF ca <= cb THEN cb ELSE ca
    IN  SubSeq(s, lo + 1, hi)

\* s.replace(/pat/g, ""): the leftmost matches, not overlapping, one pass.
RECURSIVE removeFrom(_, _, _)
removeFrom(s, from, pat) ==
    LET hits == {i \in from..Len(s) : StartsAt(s, i, pat)}
    IN  IF hits = {} THEN SubSeq(s, from, Len(s))
        ELSE LET m == CHOOSE i \in hits : \A j \in hits : i <= j
             IN  SubSeq(s, from, m - 1) \o removeFrom(s, m + Len(pat), pat)

removeAll(s, pat) == removeFrom(s, 1, pat)

\* ------------------------------------------------------------------------
\* JavaScript values
\* ------------------------------------------------------------------------

Undefined == [t |-> "undefined"]

Null == [t |-> "null"]

Bool(b) == [t |-> "boolean", v |-> b]

Num(n) == [t |-> "number", v |-> n]

Str(cs) == [t |-> "string", v |-> cs]

Arr(xs) == [t |-> "array", v |-> xs]

\* An object is the sequence of its own properties, in insertion order,
\* each [k |-> the key's characters, v |-> the value].
Obj(ps) == [t |-> "object", v |-> ps]

Prop(key, val) == [k |-> key, v |-> val]

\* ToBoolean
Truthy(x) ==
    CASE x.t = "undefined" -> FALSE
      [] x.t = "null" -> FALSE
      [] x.t = "boolean" -> x.v
      [] x.t = "number" -> x.v # 0
      [] x.t = "string" -> x.v # <<>>
      [] OTHER -> TRUE

HasKey(ps, key) == \E i \in 1..Len(ps) : ps[i].k = key

\* Defining a property: an existing key keeps its place and takes the new value.
SetKey(ps, key, val) ==
    IF HasKey(ps, key)
    THEN [i \in 1..Len(ps) |-> IF ps[i].k = key THEN Prop(key, val) ELSE ps[i]]
    ELSE Append(ps, Prop(key, val))

\* ------------------------------------------------------------------------
\* JSON.parse
\* ------------------------------------------------------------------------

Fail == [ok |-> FALSE]

Ok(val, pos) == [ok |-> TRUE, val |-> val, pos |-> pos]

\* The first position from i on that holds no white space (Len(s) + 1: none).
SkipWS(s, i) ==
    CHOOSE j \in i..(Len(s) + 1) :
        /\ j = Len(s) + 1 \/ s[j] \notin JsonWhiteSpace
        /\ \A m \in i..(j - 1) : s[m] \in JsonWhiteSpace

\* The character an escape sequence \c stands for ("none": no such escape;
\* \uXXXX is outside the alphabet of the model's texts).
Unescape(c) ==
    CASE c = "\"" -> "\""
      [] c = "\\" -> "\\"
      [] c = "/" -> "/"
      [] c = "n" -> "\n"
      [] c = "t" -> "\t"
      [] c = "r" -> "\r"
      [] c = "f" -> "\f"
      [] c = "b" -> "<backspace>"
      [] OTHER -> "none"

\* Characters that may not appear raw inside a JSON string.
ControlChars == {"\n", "\t", "\r", "\f", "<backspace>"}

\* The characters that end a run of ordinary string characters.
StringSpecials == {"\"", "\\"} \cup ControlChars

\* The first position from i on whose character is not an ordinary string
\* character (Len(s) + 1: none).
NextSpecial(s, i) ==
    CHOOSE j \in i..(Len(s) + 1) :
        /\ j = Len(s) + 1 \/ s[j] \in StringSpecials
        /\ \A m \in i..(j - 1) : s[m] \notin StringSpecials

\* The characters of a string from position i (after the opening quote).
RECURSIVE ParseStringBody(_, _, _)
ParseStringBody(s, i, acc) ==
    LET From(j) ==
            IF j > Len(s) THEN Fail
            ELSE IF s[j] = "\"" THEN Ok(Str(acc \o SubSeq(s, i, j - 1)), j + 1)
            ELSE IF s[j] = "\\"
                 THEN IF j + 1 > Len(s) \/ Unescape(s[j + 1]) = "none" THEN Fail
                      ELSE ParseStringBody(s, j + 2,
                                           Append(acc \o SubSeq(s, i, j - 1), Unescape(s[j + 1])))
            ELSE Fail
    IN  From(NextSpecial(s, i))

RECURSIVE ParseDigits(_, _, _)
ParseDigits(s, i, acc) ==
    IF i <= Len(s) /\ IsDigit(s[i])
    THEN ParseDigits(s, i + 1, acc * 10 + DigitVal(s[i]))
    ELSE [val |-> acc, pos |-> i]

\* An integer: -? (0 | [1-9][0-9]*).  Fractions and exponents are outside the
\* alphabet of the model's texts: no text holds a digit followed by . e or E.
ParseNumber(s, i) ==
    LET Digested(neg, d) ==
            IF d.pos <= Len(s) /\ s[d.pos] \in {".", "e", "E"} THEN Fail
            ELSE Ok(Num(IF neg THEN 0 - d.val ELSE d.val), d.pos)
        From(neg, j) ==
            IF j > Len(s) \/ ~IsDigit(s[j]) THEN Fail
            ELSE Digested(neg, IF s[j] = "0" THEN [val |-> 0, pos |-> j + 1]
                               ELSE ParseDigits(s, j, 0))
    IN  From(s[i] = "-", IF s[i] = "-" THEN i + 1 ELSE i)

RECURSIVE ParseValue(_, _)
RECURSIVE ParseElements(_, _, _)
RECURSIVE ParseMembers(_, _, _)

ParseValue(s, i0) ==
    LET ObjectFrom(j) ==
            IF j <= Len(s) /\ s[j] = "}" THEN Ok(Obj(<<>>), j + 1)
            ELSE ParseMembers(s, j, <<>>)
        ArrayFrom(j) ==
            IF j <= Len(s) /\ s[j] = "]" THEN Ok(Arr(<<>>), j + 1)
            ELSE ParseElements(s, j, <<>>)
        At(i) ==
            IF i > Len(s) THEN Fail
            ELSE CASE s[i] = "{" -> ObjectFrom(SkipWS(s, i + 1))
                   [] s[i] = "[" -> ArrayFrom(SkipWS(s, i + 1))
                   [] s[i] = "\"" -> ParseStringBody(s, i + 1, <<>>)
                   [] s[i] = "-" \/ IsDigit(s[i]) -> ParseNumber(s, i)
                   [] StartsAt(s, i, Text("true")) -> Ok(Bool(TRUE), i + 4)
                   [] StartsAt(s, i, Text("false")) -> Ok(Bool(FALSE), i + 5)
                   [] StartsAt(s, i, Text("null")) -> Ok(Null, i + 4)
                   [] OTHER -> Fail
    IN  At(SkipWS(s, i0))

\* The elements of an array from position i (the start of an element).
ParseElements(s, i, acc) ==
    LET After(r, j) ==
            IF j > Len(s) THEN Fail
            ELSE IF s[j] = "," THEN ParseElements(s, j + 1, Append(acc, r.val))
            ELSE IF s[j] = "]" THEN Ok(Arr(Append(acc, r.val)), j + 1)
            ELSE Fail
        Element(r) == IF ~r.ok THEN Fail ELSE After(r, SkipWS(s, r.pos))
    IN  Element(ParseValue(s, i))

\* The members of an object from position i (the start of a key).
ParseMembers(s, i, acc) ==
    LET After(acc2, m) ==
            IF m > Len(s) THEN Fail
            ELSE IF s[m] = "," THEN ParseMembers(s, m + 1, acc2)
            ELSE IF s[m] = "}" THEN Ok(Obj(acc2), m + 1)
            ELSE Fail
        Member(key, r) ==
            IF ~r.ok THEN Fail
            ELSE After(SetKey(acc, key.val.v, r.val), SkipWS(s, r.pos))
        Colon(key, j) ==
            IF j > Len(s) \/ s[j] # ":" THEN Fail
            ELSE Member(key, ParseValue(s, j + 1))
        Key(key) == IF ~key.ok THEN Fail ELSE Colon(key, SkipWS(s, key.pos))
        At(i1) ==
            IF i1 > Len(s) \/ s[i1] # "\"" THEN Fail
            ELSE Key(ParseStringBody(s, i1 + 1, <<>>))
    IN  At(SkipWS(s, i))

\* JSON.parse(s): [ok |-> TRUE, val |-> the value], or [ok |-> FALSE] where
\* JSON.parse throws a SyntaxError.
JSONparse(s) ==
    LET Whole(r) ==
            IF r.ok /\ SkipWS(s, r.pos) > Len(s) THEN [ok |-> TRUE, val |-> r.val]
            ELSE [ok |-> FALSE]
    IN  Whole(ParseValue(s, 1))

\* ------------------------------------------------------------------------
\* JSON.stringify
\* ------------------------------------------------------------------------

RECURSIVE NatToText(_)
NatToText(n) ==
    IF n < 10 THEN <<Digits[n + 1]>>
    ELSE Append(NatToText(n \div 10), Digits[(n % 10) + 1])

NumToText(n) == IF n < 0 THEN <<"-">> \o NatToText(0 - n) ELSE NatToText(n)

EscapeChar(c) ==
    CASE c = "\"" -> <<"\\", "\"">>
      [] c = "\\" -> <<"\\", "\\">>
      [] c = "\n" -> <<"\\", "n">>
      [] c = "\t" -> <<"\\", "t">>
      [] c = "\r" -> <<"\\", "r">>
      [] c = "\f" -> <<"\\", "f">>
      [] c = "<backspace>" -> <<"\\", "b">>
      [] OTHER -> <<c>>

RECURSIVE EscapeText(_)
EscapeText(s) ==
    IF Len(s) = 0 THEN <<>>
    ELSE IF Len(s) = 1 THEN EscapeChar(s[1])
    ELSE EscapeText(SubSeq(s, 1, Len(s) \div 2)) \o EscapeText(SubSeq(s, (Len(s) \div 2) + 1, Len(s)))

Quote(s) == <<"\"">> \o EscapeText(s) \o <<"\"">>

RECURSIVE JSONstringify(_)
RECURSIVE StringifyElements(_, _)
RECURSIVE StringifyMembers(_, _)

\* JSON.stringify(x) for x other than undefined.
JSONstringify(x) ==
    CASE x.t = "null" -> Text("null")
      [] x.t = "boolean" -> IF x.v THEN Text("true") ELSE Text("false")
      [] x.t = "number" -> NumToText(x.v)
      [] x.t = "string" -> Quote(x.v)
      [] x.t = "array" -> <<"[">> \o StringifyElements(x.v, TRUE) \o <<"]">>
      [] x.t = "object" -> <<"{">> \o StringifyMembers(x.v, TRUE) \o <<"}">>

\* An undefined array element is written null.
StringifyElements(xs, first) ==
    IF xs = <<>> THEN <<>>
    ELSE (IF first THEN <<>> ELSE <<",">>)
         \o (IF Head(xs).t = "undefined" THEN Text("null") ELSE JSONstringify(Head(xs)))
         \o StringifyElements(Tail(xs), FALSE)

\* A property whose value is undefined is left out.
StringifyMembers(ps, first) ==
    IF ps = <<>> THEN <<>>
    ELSE IF Head(ps).v.t = "undefined" THEN StringifyMembers(Tail(ps), first)
    ELSE (IF first THEN <<>> ELSE <<",">>)
         \o Quote(Head(ps).k) \o <<":">> \o JSONstringify(Head(ps).v)
         \o StringifyMembers(Tail(ps), FALSE)

\* ------------------------------------------------------------------------
\* services/geminiService.ts: safeJsonParse
\* ------------------------------------------------------------------------

Fence == <<BT, BT, BT>>

FenceJson == <<BT, BT, BT, "j", "s", "o", "n">>

\* cleanText after the fence markers are stripped.
StripFences(cleanText) ==
    IF includes(cleanText, Fence)
    THEN removeAll(removeAll(cleanText, FenceJson), Fence)
    ELSE cleanText

\* A slip: the span ends at the first } instead of the last.
NarrowToFirstClose(cleanText) ==
    LET firstBrace == indexOf(cleanText, "{")
        lastBrace == indexOf(cleanText, "}")
    IN  IF firstBrace # -1 /\ lastBrace # -1
        THEN substring(cleanText, firstBrace, lastBrace + 1)
        ELSE cleanText

\* cleanText narrowed to the span from its first { to its last }.
NarrowToBraces(cleanText) ==
    LET firstBrace == indexOf(cleanText, "{")
        lastBrace == lastIndexOf(cleanText, "}")
    IN  IF firstBrace # -1 /\ lastBrace # -1
        THEN substring(cleanText, firstBrace, lastBrace + 1)
        ELSE cleanText

\* safeJsonParse(text): the parsed value, or null where JSON.parse throws.
safeJsonParse(text) ==
    LET Caught(r) == IF r.ok THEN r.val ELSE Null
    IN  Caught(JSONparse(NarrowToBraces(StripFences(trim(text)))))

\* RESPONSE_SCHEMA.required
RequiredFields == {Text("narrative"), Text("stats"), Text("inventory"), Text("characters")}

\* ------------------------------------------------------------------------
\* Property reads and string conversion
\* ------------------------------------------------------------------------

kNarrative == Text("narrative")

kStats == Text("stats")

kInventory == Text("inventory")

kCharacters == Text("characters")

kNewAchievements == Text("new_achievements")

kHealth == Text("health")

kResolve == Text("resolve")

kSuspicion == Text("suspicion")

kName == Text("name")

kId == Text("id")

\* Reading a property of undefined or null throws a TypeError.
Readable(x) == x.t \notin {"undefined", "null"}

\* x.key for a readable x (the keys read are never built-in properties).
Get(x, key) ==
    IF x.t = "object" /\ HasKey(x.v, key)
    THEN x.v[CHOOSE i \in 1..Len(x.v) : x.v[i].k = key].v
    ELSE Undefined

RECURSIVE ToStringJS(_)
RECURSIVE JoinElements(_, _)

\* String(x), as a template literal converts an interpolated value.
ToStringJS(x) ==
    CASE x.t = "undefined" -> Text("undefined")
      [] x.t = "null" -> Text("null")
      [] x.t = "boolean" -> IF x.v THEN Text("true") ELSE Text("false")
      [] x.t = "number" -> NumToText(x.v)
      [] x.t = "string" -> x.v
      [] x.t = "array" -> JoinElements(x.v, TRUE)
      [] OTHER -> Text("[object Object]")

\* Array.prototype.join(","): undefined and null elements are written empty.
JoinElements(xs, first) ==
    IF xs = <<>> THEN <<>>
    ELSE (IF first THEN <<>> ELSE <<",">>)
         \o (IF Readable(Head(xs)) THEN ToStringJS(Head(xs)) ELSE <<>>)
         \o JoinElements(Tail(xs), FALSE)

\* `${JSON.stringify(x)}`: JSON.stringify(undefined) is undefined.
StringifyInterpolated(x) ==
    IF x.t = "undefined" THEN Text("undefined") ELSE JSONstringify(x)

\* ------------------------------------------------------------------------
\* services/geminiService.ts: startNewStory and generateNextEntry
\* ------------------------------------------------------------------------

\* The awaited sendMessage either rejects or resolves with a response whose
\* text is a string or undefined.
Rejected == [kind |-> "reject", text |-> Undefined]

Resolved(text) == [kind |-> "resolve", text |-> text]

\* if (response.text) { parsed = safeJsonParse(response.text); if (parsed) return parsed }
\* and otherwise the throw into the catch block, which answers with fallback.
ParsedOr(outcome, fallback) ==
    LET Checked(parsed) == IF Truthy(parsed) THEN parsed ELSE fallback
    IN  IF outcome.kind = "resolve" /\ Truthy(outcome.text)
        THEN Checked(safeJsonParse(outcome.text.v))
        ELSE fallback

DefaultStats ==
    Obj(<<Prop(kHealth, Num(100)), Prop(kResolve, Num(100)), Prop(kSuspicion, Num(0))>>)

StartResponse(narrative, stats, inventory, characters) ==
    Obj(<<Prop(kNarrative, narrative), Prop(kStats, stats),
          Prop(kInventory, inventory), Prop(kCharacters, characters)>>)

\* startNewStory's catch block.
StartFallback ==
    StartResponse(Str(Text("The city is quiet tonight. Too quiet. (System Error)")),
                  DefaultStats, Arr(<<Str(Text("(Unknown)"))>>), Arr(<<>>))

\* generateNextEntry's catch block.
NextFallback(currentStats, currentInventory, currentCharacters) ==
    StartResponse(Str(Text("The shadows lengthen... (AI Connection Error)")),
                  currentStats, currentInventory, currentCharacters)

\* The message startNewStory sends: the template's interpolated part.
StartPrompt(premise) == [kind |-> "start", premise |-> ToStringJS(premise)]

\* A slip: only the empty action, not a blank one, becomes the wait action.
finalActionNoTrim(userAction) ==
    IF userAction = <<>> THEN Text("I wait.") ELSE userAction

\* userAction.trim() === "" ? "I wait." : userAction
finalAction(userAction) ==
    IF trim(userAction) = <<>> THEN Text("I wait.") ELSE userAction

\* Building generateNextEntry's prompt throws a TypeError: currentStats.health
\* on undefined or null, or currentCharacters.map(c => c.name) on something
\* that is no array or that holds undefined or null.
PromptThrows(currentStats, currentCharacters) ==
    \/ ~Readable(currentStats)
    \/ currentCharacters.t # "array"
    \/ \E i \in 1..Len(currentCharacters.v) : ~Readable(currentCharacters.v[i])

\* The message generateNextEntry sends: the template's interpolated parts.
NextPrompt(userAction, currentStats, currentInventory, currentCharacters) ==
    [kind |-> "turn",
     hp |-> ToStringJS(Get(currentStats, kHealth)),
     psy |-> ToStringJS(Get(currentStats, kResolve)),
     sus |-> ToStringJS(Get(currentStats, kSuspicion)),
     inventory |-> StringifyInterpolated(currentInventory),
     names |-> JSONstringify(Arr([i \in 1..Len(currentCharacters.v) |->
                                    Get(currentCharacters.v[i], kName)])),
     action |-> finalAction(userAction)]

NoMessage == [kind |-> "none"]

\* A slip: a send is made twice, as a retry would.
SentAgain(count, message) == IF message.kind = "none" THEN count ELSE count + 2

\* How many messages sendMessage has been handed once a call that got as far
\* as message has made its one send (none where it ended before the send).
Sent(count, message) == IF message.kind = "none" THEN count ELSE count + 1

\* A slip: no guard; the session is created and the prompt sent whether or
\* not initializeGemini has run.
StartNewStoryBeginNoGuard(ai, session, newSession, premise) ==
    [threw |-> FALSE, error |-> "", done |-> FALSE,
     session |-> newSession, message |-> StartPrompt(premise)]

\* startNewStory up to its await: [threw, error, session, message].  session is
\* the module's chatSession afterwards, newSession the one chats.create makes.
StartNewStoryBegin(ai, session, newSession, premise) ==
    IF ~ai
    THEN [threw |-> TRUE, error |-> "Gemini not initialized.", done |-> TRUE,
          session |-> session, message |-> NoMessage]
    ELSE [threw |-> FALSE, error |-> "", done |-> FALSE,
          session |-> newSession, message |-> StartPrompt(premise)]

\* startNewStory after its await.
StartNewStoryReturn(outcome) ==
    ParsedOr(outcome, StartFallback)

\* A slip: no guard; chatSession.sendMessage on null throws inside the try
\* and the catch block answers.
GenerateNextEntryBeginNoGuard(session, userAction, currentStats, currentInventory, currentCharacters) ==
    IF session = 0 \/ PromptThrows(currentStats, currentCharacters)
    THEN [threw |-> FALSE, error |-> "", done |-> TRUE, message |-> NoMessage]
    ELSE [threw |-> FALSE, error |-> "", done |-> FALSE,
          message |-> NextPrompt(userAction, currentStats, currentInventory, currentCharacters)]

\* generateNextEntry up to its await: it throws without a session, answers
\* with the fallback at once when building the prompt throws (done), and
\* otherwise sends the prompt on the open session.
GenerateNextEntryBegin(session, userAction, currentStats, currentInventory, currentCharacters) ==
    IF session = 0
    THEN [threw |-> TRUE, error |-> "Game session not active.", done |-> TRUE,
          message |-> NoMessage]
    ELSE IF PromptThrows(currentStats, currentCharacters)
    THEN [threw |-> FALSE, error |-> "", done |-> TRUE, message |-> NoMessage]
    ELSE [threw |-> FALSE, error |-> "", done |-> FALSE,
          message |-> NextPrompt(userAction, currentStats, currentInventory, currentCharacters)]

\* generateNextEntry after its await.
GenerateNextEntryReturn(outcome, currentStats, currentInventory, currentCharacters) ==
    ParsedOr(outcome, NextFallback(currentStats, currentInventory, currentCharacters))

\* ------------------------------------------------------------------------
\* services/geminiService.ts: generateCaseSummary and fetchWorldNews
\* ------------------------------------------------------------------------

\* How many of the latest entries generateCaseSummary hands to the model.
SummaryWindow == 20

\* xs.slice(-n)
LastOf(xs, n) == SubSeq(xs, IF Len(xs) > n THEN Len(xs) - n + 1 ELSE 1, Len(xs))

\* `${e.isUserAction ? '> Player' : 'Narrator'}: ${e.text}`
SummaryLine(e) ==
    (IF Truthy(Get(e, Text("isUserAction"))) THEN Text("> Player") ELSE Text("Narrator"))
        \o Text(": ") \o ToStringJS(Get(e, Text("text")))

\* Array.prototype.join('\n') of texts.
RECURSIVE JoinLines(_)
JoinLines(ls) ==
    IF ls = <<>> THEN <<>>
    ELSE IF Len(ls) = 1 THEN ls[1]
    ELSE ls[1] \o <<"\n">> \o JoinLines(Tail(ls))

\* Building storyText throws: es has no slice or no map, or an entry of the
\* window is undefined or null.
StoryTextThrows(es) ==
    \/ es.t # "array"
    \/ \E i \in 1..Len(LastOf(es.v, SummaryWindow)) : ~Readable(LastOf(es.v, SummaryWindow)[i])

storyText(es) ==
    JoinLines([i \in 1..Len(LastOf(es.v, SummaryWindow)) |->
                  SummaryLine(LastOf(es.v, SummaryWindow)[i])])

\* generateCaseSummary up to its await: [done, result, message].  Without an
\* aiInstance, and where building the prompt throws, it answers at once.
GenerateCaseSummaryBegin(ai, es) ==
    IF ~ai
    THEN [done |-> TRUE, result |-> Str(Text("Signal weak. Cannot compile summary.")),
          message |-> NoMessage]
    ELSE IF StoryTextThrows(es)
    THEN [done |-> TRUE, result |-> Str(Text("Unable to compile case file.")),
          message |-> NoMessage]
    ELSE [done |-> FALSE, result |-> Undefined,
          message |-> [kind |-> "summary", log |-> storyText(es)]]

\* generateCaseSummary after its await.
GenerateCaseSummaryReturn(outcome) ==
    IF outcome.kind = "reject" THEN Str(Text("Unable to compile case file."))
    ELSE IF Truthy(outcome.text) THEN outcome.text
    ELSE Str(Text("No summary available."))

\* The awaited generateContent of fetchWorldNews either rejects or resolves
\* with a text and the grounding chunks of its first candidate (undefined
\* where a link of the optional chain is missing).
NewsRejected == [kind |-> "reject", text |-> Undefined, chunks |-> Undefined]

NewsResolved(text, chunks) == [kind |-> "resolve", text |-> text, chunks |-> chunks]

\* fetchWorldNews up to its await: it throws without an aiInstance.
FetchWorldNewsBegin(ai, premise) ==
    IF ~ai
    THEN [threw |-> TRUE, error |-> "AI not initialized", message |-> NoMessage]
    ELSE [threw |-> FALSE, error |-> "",
          message |-> [kind |-> "news", premise |-> ToStringJS(premise)]]

\* groundingChunks?.map(chunk => chunk.web) throws on a chunk that is
\* undefined or null, or on chunks that have no map.
SourcesThrow(chunks) ==
    /\ Readable(chunks)
    /\ \/ chunks.t # "array"
       \/ \E i \in 1..Len(chunks.v) : ~Readable(chunks.v[i])

\* groundingChunks?.map(chunk => chunk.web).filter(w => w) || []
GroundingSources(chunks) ==
    IF ~Readable(chunks) THEN Arr(<<>>)
    ELSE Arr(SelectSeq([i \in 1..Len(chunks.v) |-> Get(chunks.v[i], Text("web"))], Truthy))

\* fetchWorldNews after its await: [threw, text, sources].
FetchWorldNewsReturn(outcome) ==
    IF outcome.kind = "reject" \/ SourcesThrow(outcome.chunks)
    THEN [threw |-> TRUE, text |-> Undefined, sources |-> Undefined]
    ELSE [threw |-> FALSE, text |-> outcome.text,
          sources |-> GroundingSources(outcome.chunks)]

\* ------------------------------------------------------------------------
\* State
\* ------------------------------------------------------------------------

VARIABLES
    \* safeJsonParse applied to one raw model text
    raw,        \* the text handed to safeJsonParse
    shape,      \* how the text was put together (what the endpoint emitted)
    parsed,     \* what safeJsonParse returned
    ppc         \* "ready" before the call, "done" after it

VARIABLES
    \* the module-level state of services/geminiService.ts
    aiInstance,      \* FALSE: null; TRUE: a GoogleGenAI client
    chatSession,     \* 0: null; n: the n-th Chat that chats.create made
    sessionsCreated, \* how many Chats chats.create has made
    sentCount        \* how many messages sendMessage has been handed

VARIABLES
    \* a driver calling the service's exported functions directly
    call,       \* the latest call: its arguments, what it sent, how it ended
    ncalls      \* calls made so far

parseVars == <<raw, shape, parsed, ppc>>

serviceVars == <<aiInstance, chatSession, sessionsCreated, sentCount>>

driverVars == <<call, ncalls>>

VARIABLES
    \* the React state of App
    gameState,          \* "START", "LOADING_ANIMATION" or "PLAYING"
    entries,            \* the transcript
    premise,
    isProcessing,
    errorMsg,
    userApiKey,
    stats,
    inventory,
    characters,
    achievements,
    recentAchievement,
    activeModal,        \* "inventory", "characters", "storyline" or "null"
    tvChannel,
    hasSave,
    loadingProgress,
    caseSummary,
    isGeneratingSummary,
    newsContent,
    newsSources,
    isFetchingNews

VARIABLES
    \* what App runs in
    store,      \* localStorage's record under SAVE_KEY: null or a string
    envApiKey,  \* process.env.API_KEY, empty where the build defines none
    now,        \* the clock that Date.now() reads
    mounted,    \* the mount effect has run
    crashed,    \* a render or an effect threw: React has unmounted App
    pending,    \* the handlers suspended at an await, each with what it captured
    toastTimers \* the toast effect's timers not yet fired or cleared, each named
                \* by the turn that surfaced the achievement it was set for

VARIABLES
    \* bookkeeping
    saved,      \* the session as the latest handleSave wrote it
    turns,      \* handleUserAction calls so far
    starts,     \* startNewStory calls so far
    saves,      \* handleSave calls so far
    loads,      \* handleLoad calls so far
    quits,      \* resetToMenu calls so far
    summaries,  \* handleGenerateSummary calls so far
    lookups,    \* handleFetchNews calls so far
    budget      \* how many of each this run explores

VARIABLES
    \* one TypewriterText component
    textProp,       \* its text prop
    displayedText,  \* its displayedText state
    indexRef,       \* indexRef.current
    timeoutRef,     \* timeoutRef.current: the id of the timeout set last, 0 for null
    typeTimers,     \* the timeouts not yet fired or cleared, each with its id and
                    \* the text its typeChar closes over
    completions,    \* onComplete calls since the text prop was set
    changes         \* changes of the text prop so far

typewriterVars ==
    <<textProp, displayedText, indexRef, timeoutRef, typeTimers, completions, changes>>

appVars ==
    <<gameState, entries, premise, isProcessing, errorMsg, userApiKey, stats, inventory,
      characters, achievements, recentAchievement, activeModal, tvChannel, hasSave,
      loadingProgress, caseSummary, isGeneratingSummary, newsContent, newsSources,
      isFetchingNews, store, envApiKey, now, mounted, crashed, pending, toastTimers,
      saved, turns, starts, saves, loads, quits, summaries, lookups, budget>>

vars == <<parseVars, serviceVars, driverVars, appVars, typewriterVars>>

\* ------------------------------------------------------------------------
\* App.tsx: values and the state at construction
\* ------------------------------------------------------------------------

\* loadingProgress at which the loading effect ends, and the least and the
\* greatest step of one tick.
LoadingDone == 100

MinLoadStep == 5

MaxLoadStep == 19

DEFAULT_PREMISE ==
    Str(Text("You are a private investigator in a city that never sleeps. It's 3 AM, raining, and you just found something you shouldn't have."))

kEntries == Text("entries")

kAchievements == Text("achievements")

kPremise == Text("premise")

kText == Text("text")

kTimestamp == Text("timestamp")

kIsUserAction == Text("isUserAction")

\* new Date(t).toLocaleTimeString(), in one locale
toLocaleTimeString(t) == Text("3:00:0") \o NatToText(t) \o Text(" AM")

\* new Date(t).toLocaleString(), in the same locale
toLocaleString(t) == Text("1/5/2025, ") \o toLocaleTimeString(t)

\* A DiaryEntry as the handlers build it at clock value t.
DiaryEntry(id, text, t, isUserAction) ==
    Obj(<<Prop(kId, Str(id)), Prop(kText, text),
          Prop(kTimestamp, Str(toLocaleTimeString(t))),
          Prop(kIsUserAction, Bool(isUserAction))>>)

\* useState<CharacterStats>({ health: 100, resolve: 100, suspicion: 0 })
InitialStats ==
    Obj(<<Prop(kHealth, Num(100)), Prop(kResolve, Num(100)), Prop(kSuspicion, Num(0))>>)

\* handleSave's data object written at clock value t.
SaveData(e, s, i, c, a, p, t) ==
    Obj(<<Prop(kEntries, e), Prop(kStats, s), Prop(kInventory, i), Prop(kCharacters, c),
          Prop(kAchievements, a), Prop(kPremise, p),
          Prop(kTimestamp, Str(toLocaleString(t)))>>)

NoSave == [taken |-> FALSE, data |-> <<>>, turns |-> 0]

NoBudget ==
    [turns |-> 0, starts |-> 0, saves |-> 0, loads |-> 0, quits |-> 0, ticks |-> 0,
     summaries |-> 0, lookups |-> 0]

\* App as useState constructs it, over a store record s and a build key e,
\* to be explored as far as b allows.
AppStart(s, e, b) ==
    /\ gameState = "START"
    /\ entries = Arr(<<>>)
    /\ premise = DEFAULT_PREMISE
    /\ isProcessing = FALSE
    /\ errorMsg = Null
    /\ userApiKey = <<>>
    /\ stats = InitialStats
    /\ inventory = Arr(<<>>)
    /\ characters = Arr(<<>>)
    /\ achievements = Arr(<<>>)
    /\ recentAchievement = Null
    /\ activeModal = "null"
    /\ tvChannel = "MENU"
    /\ hasSave = FALSE
    /\ loadingProgress = 0
    /\ caseSummary = Null
    /\ isGeneratingSummary = FALSE
    /\ newsContent = Null
    /\ newsSources = Arr(<<>>)
    /\ isFetchingNews = FALSE
    /\ store = s
    /\ envApiKey = e
    /\ now = 0
    /\ mounted = FALSE
    /\ crashed = FALSE
    /\ pending = {}
    /\ toastTimers = {}
    /\ saved = NoSave
    /\ turns = 0
    /\ starts = 0
    /\ saves = 0
    /\ loads = 0
    /\ quits = 0
    /\ summaries = 0
    /\ lookups = 0
    /\ budget = b

\* App is not running.
AppIdle == AppStart(Null, <<>>, NoBudget)

\* ------------------------------------------------------------------------
\* Raw model texts
\* ------------------------------------------------------------------------

\* Well-formed JSON objects as the endpoint may write them.
ObjectTexts ==
    { Text("{}"),
      Text("{\"a\":1}"),
      Text("{ \"a\" : [1, {\"b\": null}] ,\n \"c\":\"x\" }"),
      Text("{\"narrative\":\"He said {wait}.\"}"),
      Text("{\"narrative\":\"Run ^^^ls^^^ now\"}"),
      Text("{\"narrative\":\"n\",\"stats\":{\"health\":90,\"resolve\":100,\"suspicion\":0},\"inventory\":[\"Gun\"],\"characters\":[]}") }

\* Commentary the endpoint may put before the object.
LeadingProse ==
    { <<>>, Text("Sure, here it is:\n"), Text("Result {draft}: "), Text("a} "), Text("^quoted^ ") }

\* Commentary the endpoint may put after the object.
TrailingProse ==
    { <<>>, Text("\nGood luck."), Text(" (see {notes})"), Text(" {b"), Text("\n") }

OpeningFences == { <<>>, Text("^^^\n"), Text("^^^json\n") }

ClosingFences == { <<>>, Text("\n^^^") }

\* One JSON object, optionally fenced, optionally inside prose.
WrappedShapes ==
    [kind : {"wrapped"}, pre : LeadingProse, open : OpeningFences,
     obj : ObjectTexts, close : ClosingFences, post : TrailingProse]

FreeChars == {"{", "}", "[", "]", "\"", "1", " ", BT}

\* Every text of at most MaxFreeLen characters over FreeChars.
FreeTexts == UNION {[1..n -> FreeChars] : n \in 0..MaxFreeLen}

RawOf(sh) == sh.pre \o sh.open \o sh.obj \o sh.close \o sh.post

\* ------------------------------------------------------------------------
\* safeJsonParse on one text
\* ------------------------------------------------------------------------

\* initializeGemini(apiKey): aiInstance afterwards.
initializeGemini(ai, apiKey) == IF apiKey = <<>> THEN ai ELSE TRUE

\* No TypewriterText is mounted.
TypewriterIdle ==
    /\ textProp = <<>>
    /\ displayedText = <<>>
    /\ indexRef = 0
    /\ timeoutRef = 0
    /\ typeTimers = {}
    /\ completions = 0
    /\ changes = 0

ServiceInit ==
    /\ aiInstance = FALSE
    /\ chatSession = 0
    /\ sessionsCreated = 0
    /\ sentCount = 0

NoCall ==
    [fn |-> "none", status |-> "none", premise |-> Undefined, userAction |-> <<>>,
     currentStats |-> Undefined, currentInventory |-> Undefined,
     currentCharacters |-> Undefined, aiBefore |-> FALSE, sessionBefore |-> 0,
     sentBefore |-> 0, message |-> NoMessage, error |-> "", outcome |-> Rejected,
     result |-> Undefined]

DriverIdle == call = NoCall /\ ncalls = 0

ParseIdle == raw = <<>> /\ shape = [kind |-> "free"] /\ parsed = Undefined /\ ppc = "idle"

InitParse ==
    /\ ServiceInit
    /\ TypewriterIdle
    /\ DriverIdle
    /\ AppIdle
    /\ ppc = "ready"
    /\ parsed = Undefined
    /\ \/ /\ shape \in WrappedShapes
          /\ raw = RawOf(shape)
       \/ /\ shape = [kind |-> "free"]
          /\ raw \in FreeTexts

ParseText ==
    /\ ppc = "ready"
    /\ parsed' = safeJsonParse(raw)
    /\ ppc' = "done"
    /\ UNCHANGED <<raw, shape>>
    /\ UNCHANGED <<serviceVars, driverVars, appVars, typewriterVars>>

NextParse == ParseText

SpecParse == InitParse /\ [][NextParse]_vars

\* ------------------------------------------------------------------------
\* The service called directly
\* ------------------------------------------------------------------------

GoodReplyText ==
    Text("{\"narrative\":\"n\",\"stats\":{\"health\":90,\"resolve\":100,\"suspicion\":0},\"inventory\":[\"Gun\"],\"characters\":[]}")

\* What the endpoint may answer.
ReplyTexts ==
    { GoodReplyText,
      Text("^^^json\n") \o GoodReplyText \o Text("\n^^^"),
      Text("{\"narrative\":\"n\",\"stats\":{\"hea"),
      Text("The line went dead."),
      Text("{}"), Text("1"), Text("0"), Text("null") }

Outcomes ==
    {Rejected, Resolved(Undefined), Resolved(Str(<<>>))}
        \cup {Resolved(Str(t)) : t \in ReplyTexts}

Joe == Obj(<<Prop(kName, Str(Text("Joe"))), Prop(Text("description"), Str(Text("Partner"))),
             Prop(Text("status"), Str(Text("Alive")))>>)

HurtStats ==
    Obj(<<Prop(kHealth, Num(40)), Prop(kResolve, Num(70)), Prop(kSuspicion, Num(55))>>)

DriverPremises == {Str(Text("noir")), Str(Text("You are a \"detective\"."))}

DriverActions ==
    {<<>>, Text("   "), Text(" \n\t"), Text("I wait."), Text(" I wait. "), Text("look around")}

DriverStats == {DefaultStats, HurtStats, Undefined}

DriverInventories == {Arr(<<>>), Arr(<<Str(Text("Gun"))>>)}

DriverCharacters == {Arr(<<>>), Arr(<<Joe>>)}

DriverKeys == {<<>>, Text("key")}

InitService ==
    /\ ServiceInit
    /\ TypewriterIdle
    /\ DriverIdle
    /\ ParseIdle
    /\ AppIdle

DriverInitialize(apiKey) ==
    /\ aiInstance' = initializeGemini(aiInstance, apiKey)
    /\ UNCHANGED <<chatSession, sessionsCreated, sentCount, driverVars, parseVars, typewriterVars, appVars>>

CallStartNewStory(storyPremise) ==
    /\ call.status # "pending"
    /\ ncalls < MaxCalls
    /\ LET b == StartNewStoryBegin(aiInstance, chatSession, sessionsCreated + 1, storyPremise)
       IN  /\ chatSession' = b.session
           /\ sessionsCreated' = IF b.threw THEN sessionsCreated ELSE sessionsCreated + 1
           /\ sentCount' = Sent(sentCount, b.message)
           /\ call' = [NoCall EXCEPT !.fn = "startNewStory",
                                     !.status = IF b.threw THEN "threw" ELSE "pending",
                                     !.premise = storyPremise,
                                     !.aiBefore = aiInstance,
                                     !.sessionBefore = chatSession,
                                     !.sentBefore = sentCount,
                                     !.message = b.message,
                                     !.error = b.error]
    /\ ncalls' = ncalls + 1
    /\ UNCHANGED <<aiInstance, parseVars, typewriterVars, appVars>>

CallGenerateNextEntry(userAction, currentStats, currentInventory, currentCharacters) ==
    /\ call.status # "pending"
    /\ ncalls < MaxCalls
    /\ LET b == GenerateNextEntryBegin(chatSession, userAction, currentStats,
                                       currentInventory, currentCharacters)
       IN  /\ sentCount' = Sent(sentCount, b.message)
           /\ call' = [NoCall EXCEPT !.fn = "generateNextEntry",
                                     !.status = IF b.threw THEN "threw"
                                                ELSE IF b.done THEN "returned" ELSE "pending",
                                     !.userAction = userAction,
                                     !.currentStats = currentStats,
                                     !.currentInventory = currentInventory,
                                     !.currentCharacters = currentCharacters,
                                     !.aiBefore = aiInstance,
                                     !.sessionBefore = chatSession,
                                     !.sentBefore = sentCount,
                                     !.message = b.message,
                                     !.error = b.error,
                                     !.result = IF b.done /\ ~b.threw
                                                THEN NextFallback(currentStats, currentInventory,
                                                                  currentCharacters)
                                                ELSE Undefined]
    /\ ncalls' = ncalls + 1
    /\ UNCHANGED <<aiInstance, chatSession, sessionsCreated, parseVars, typewriterVars, appVars>>

\* The awaited sendMessage settles and the call runs to its end.
EndpointSettles(outcome) ==
    /\ call.status = "pending"
    /\ call' = [call EXCEPT !.status = "returned",
                            !.outcome = outcome,
                            !.result = IF call.fn = "startNewStory"
                                       THEN StartNewStoryReturn(outcome)
                                       ELSE GenerateNextEntryReturn(outcome, call.currentStats,
                                                call.currentInventory, call.currentCharacters)]
    /\ UNCHANGED <<serviceVars, ncalls, parseVars, typewriterVars, appVars>>

NextService ==
    \/ \E apiKey \in DriverKeys : DriverInitialize(apiKey)
    \/ \E storyPremise \in DriverPremises : CallStartNewStory(storyPremise)
    \/ \E a \in DriverActions, st \in DriverStats, inv \in DriverInventories,
          ch \in DriverCharacters : CallGenerateNextEntry(a, st, inv, ch)
    \/ \E outcome \in Outcomes : EndpointSettles(outcome)

SpecService == InitService /\ [][NextService]_vars

\* ------------------------------------------------------------------------
\* App.tsx: what the handlers compute
\* ------------------------------------------------------------------------

\* x.length: the element count of an array or a string, else an own property.
LengthOf(x) ==
    IF x.t \in {"array", "string"} THEN Num(Len(x.v)) ELSE Get(x, Text("length"))

\* x && x.length > 0, for a length that is a number or is missing.
HasElements(x) == Truthy(x) /\ LengthOf(x).t = "number" /\ LengthOf(x).v > 0

\* a === b: primitives compare by value, two objects are never the same one.
StrictEquals(a, b) ==
    a.t \in {"undefined", "null", "boolean", "number", "string"} /\ a = b

\* achievements.some(a => a.id === na.id)
KnownId(achs, na) ==
    \E j \in 1..Len(achs.v) : StrictEquals(Get(achs.v[j], kId), Get(na, kId))

\* achievements.some(a => a.id === na.id) throws a TypeError: no some method,
\* or the scan reads .id of undefined or null before it finds a match.
SomeThrows(achs, na) ==
    \/ achs.t # "array"
    \/ \E j \in 1..Len(achs.v) :
          /\ ~Readable(achs.v[j]) \/ ~Readable(na)
          /\ \A k \in 1..(j - 1) : ~StrictEquals(Get(achs.v[k], kId), Get(na, kId))

\* response.new_achievements.filter(...) throws a TypeError.
FilterThrows(list, achs) ==
    \/ list.t # "array"
    \/ \E i \in 1..Len(list.v) : SomeThrows(achs, list.v[i])

\* uniqueNew: the delivered achievements whose id the captured set lacks.
uniqueNew(list, achs) == SelectSeq(list.v, LAMBDA na : ~KnownId(achs, na))

\* A slip: the items replace what was there.
SpreadDropsPrev(prev, items) ==
    IF prev.t = "array" THEN Arr(items) ELSE Undefined

\* A slip: the items are put in front.
SpreadInFront(prev, items) ==
    IF prev.t = "array" THEN Arr(items \o prev.v) ELSE Undefined

\* [...prev, ...items]; spreading a value that is not iterable throws, which
\* leaves the state undefined here and is reported by SpreadThrows.
Spread(prev, items) ==
    IF prev.t = "array" THEN Arr(prev.v \o items) ELSE Undefined

SpreadThrows(prev) == prev.t # "array"

\* What handleUserAction captured when it was called.
Closure(id, actionText) ==
    [id |-> id, kind |-> "turn", actionText |-> actionText, stats |-> stats,
     inventory |-> inventory, characters |-> characters, achievements |-> achievements]

\* What startInvestigation holds across its await: nothing it reads again.
StartClosure(id) ==
    [id |-> id, kind |-> "start", actionText |-> <<>>, stats |-> Undefined,
     inventory |-> Undefined, characters |-> Undefined, achievements |-> Undefined]

\* handleUserAction after its await, on the response generateNextEntry
\* returned to the call that captured p: the session state it sets, whether
\* the merge threw into the catch block, and whether a state updater throws.
AppliedTurn(p, response) ==
    LET Merged(caught, fresh) ==
            [stats |-> Get(response, kStats),
             inventory |-> Get(response, kInventory),
             characters |-> IF Truthy(Get(response, kCharacters))
                            THEN Get(response, kCharacters) ELSE characters,
             achievements |-> IF fresh = <<>> THEN achievements
                              ELSE Spread(achievements, fresh),
             recentAchievement |-> IF fresh = <<>> THEN recentAchievement ELSE fresh[1],
             surfaced |-> fresh # <<>>,
             caught |-> caught,
             updaterThrows |-> fresh # <<>> /\ SpreadThrows(achievements)]
        Caught(delivered, caught) ==
            Merged(caught, IF HasElements(delivered) /\ ~caught
                           THEN uniqueNew(delivered, p.achievements) ELSE <<>>)
        Delivered(delivered) ==
            Caught(delivered,
                   HasElements(delivered) /\ FilterThrows(delivered, p.achievements))
    IN  Delivered(Get(response, kNewAchievements))

userEntry(actionText) ==
    DiaryEntry(Text("user-") \o NatToText(now), Str(Text("> ") \o actionText), now, TRUE)

aiEntry(response) ==
    DiaryEntry(Text("ai-") \o NatToText(now), Get(response, kNarrative), now, FALSE)

errorEntry ==
    DiaryEntry(Text("err-") \o NatToText(now),
               Str(Text("The narrative slips away... (Connection Error)")), now, FALSE)

\* startInvestigation's newEntry
newEntry(response) == DiaryEntry(NatToText(now), Get(response, kNarrative), now, FALSE)

\* ------------------------------------------------------------------------
\* App.tsx: rendering and effects
\* ------------------------------------------------------------------------

\* The shake effect throws a TypeError on the transcript es: es.length of
\* undefined or null, a last entry that is undefined or null, or a narrator's
\* last entry whose text has no toLowerCase.
ShakeEffectThrows(es) ==
    \/ ~Readable(es)
    \/ /\ es.t = "array" /\ Len(es.v) > 0
       /\ LET lastEntry == es.v[Len(es.v)]
          IN  \/ ~Readable(lastEntry)
              \/ /\ ~Truthy(Get(lastEntry, kIsUserAction))
                 /\ Get(lastEntry, kText).t # "string"

\* x.length === 0 ? ... : x.map(...) throws: nothing readable, or no map.
ListThrows(x) == x.t # "array" /\ x # Str(<<>>)

\* The entries the timeline channel lists: the transcript es, or the entries
\* of the stored record sv while the transcript is empty.
timelineEntries(es, sv) ==
    IF LengthOf(es) = Num(0) /\ Truthy(sv)
    THEN LET Of(r) == IF r.ok /\ Readable(r.val) THEN Get(r.val, kEntries) ELSE es
         IN  Of(JSONparse(sv.v))
    ELSE es

\* The timeline channel throws while rendering the entries te.
TimelineThrows(te) ==
    \/ ~Readable(te)
    \/ /\ LengthOf(te) # Num(0)
       /\ \/ te.t # "array"
          \/ \E i \in 1..Len(te.v) :
                \/ ~Readable(te.v[i])
                \/ ~Readable(Get(te.v[i], kText))

\* renderGameScreen throws.
GameScreenThrows(modal, es, st, inv, chars) ==
    \/ ~Readable(st)
    \/ modal = "inventory" /\ ListThrows(inv)
    \/ /\ modal = "characters"
       /\ \/ ListThrows(chars)
          \/ chars.t = "array" /\ \E i \in 1..Len(chars.v) : ~Readable(chars.v[i])
    \/ es.t # "array"
    \/ \E i \in 1..Len(es.v) :
          \/ ~Readable(es.v[i])
          \/ /\ Truthy(Get(es.v[i], kIsUserAction))
             /\ Get(es.v[i], kText).t # "string"

\* Rendering a state, or an effect that follows the render, throws.
RenderThrows(gs, channel, modal, es, st, inv, chars, sv) ==
    \/ ShakeEffectThrows(es)
    \/ gs = "START" /\ channel = "TIMELINE" /\ TimelineThrows(timelineEntries(es, sv))
    \/ gs = "PLAYING" /\ GameScreenThrows(modal, es, st, inv, chars)

\* A slip: the toast effect returns no cleanup.
KeptTimers(timers) == timers

\* The toast effect's cleanup, run before the effect runs again: clearTimeout.
ClearedTimers(timers) == {}

\* The toast effect after a render in which setRecentAchievement, called by
\* the turn id, has set recent: the cleanup, then a timer where recent is truthy.
ToastEffect(timers, recent, id) ==
    ClearedTimers(timers) \cup (IF Truthy(recent) THEN {id} ELSE {})

\* The timers left after a render: unmounting App runs every cleanup.
RunningTimers(threw, timers) == IF threw THEN {} ELSE timers

\* The state the step leaves throws when React renders it.
NextRenderThrows ==
    RenderThrows(gameState', tvChannel', activeModal', entries', stats', inventory',
                 characters', store')

\* ------------------------------------------------------------------------
\* App.tsx: the handlers
\* ------------------------------------------------------------------------

\* What the endpoint may answer a story call of App.
GoodTurnText ==
    Text("{\"narrative\":\"\\\"Run.\\\"\",\"stats\":{\"health\":90,\"resolve\":100,\"suspicion\":0},\"inventory\":[\"Gun\"],\"characters\":[],\"new_achievements\":[{\"id\":\"a1\",\"title\":\"T\",\"description\":\"D\"}]}")

AppOutcomes == {Rejected, Resolved(Str(GoodTurnText)), Resolved(Str(Text("{}")))}

Badge ==
    Obj(<<Prop(kId, Str(Text("a1"))), Prop(Text("title"), Str(Text("T"))),
          Prop(Text("description"), Str(Text("D")))>>)

Medal ==
    Obj(<<Prop(kId, Str(Text("a2"))), Prop(Text("title"), Str(Text("M"))),
          Prop(Text("description"), Str(Text("E")))>>)

\* A turn's response in which the detective is hurt and meets Joe.
HurtTurnText ==
    Text("{\"narrative\":\"Ow.\",\"stats\":{\"health\":40,\"resolve\":70,\"suspicion\":55},\"inventory\":[\"Gun\"],\"characters\":[{\"name\":\"Joe\",\"description\":\"Partner\",\"status\":\"Alive\"}],\"new_achievements\":[{\"id\":\"a2\",\"title\":\"M\",\"description\":\"E\"},{\"id\":\"a1\",\"title\":\"T\",\"description\":\"D\"}]}")

\* What the endpoint may answer a generateNextEntry call of App.
TurnOutcomes == AppOutcomes \cup {Resolved(Str(HurtTurnText))}

\* What the endpoint may answer a generateContent call of generateCaseSummary.
SummaryOutcomes == {Rejected, Resolved(Str(Text("- A clue."))), Resolved(Undefined)}

WireSource ==
    Obj(<<Prop(Text("uri"), Str(Text("http://w/1"))), Prop(Text("title"), Str(Text("Heist")))>>)

\* What the endpoint may answer a generateContent call of fetchWorldNews: a
\* rejection, headlines with a grounded chunk and one without a web source,
\* or a response with neither text nor candidates.
NewsOutcomes ==
    {NewsRejected,
     NewsResolved(Str(Text("1. Heist.")),
                  Arr(<<Obj(<<Prop(Text("web"), WireSource)>>), Obj(<<>>)>>)),
     NewsResolved(Undefined, Undefined)}

\* The record an earlier session of App saved.
EarlierSave ==
    JSONstringify(SaveData(Arr(<<DiaryEntry(Text("7"), Str(Text("Rain.")), 7, FALSE)>>),
                           HurtStats, Arr(<<Str(Text("Gun"))>>), Arr(<<Joe>>),
                           Arr(<<Badge>>), DEFAULT_PREMISE, 7))

\* What the store may hold under SAVE_KEY when App mounts: nothing, an
\* earlier save, or a record that something else wrote or cut short, the
\* empty record among them.
InitialStores ==
    {Null, Str(EarlierSave), Str(SubSeq(EarlierSave, 1, TruncatedLen)),
     Str(Text("null")), Str(Text("{}")), Str(<<>>)}

\* How far a run from the store record s is explored: from an empty store
\* either MaxTurns turns of one game while the clock advances, or one game
\* with a turn less together with saving, quitting and loading, or with a
\* summary and a news lookup, or MaxStarts calls of startInvestigation with
\* a turn; from an earlier save the second without a new
\* game, or its load with a summary and MaxLookups news lookups; from a
\* foreign record up to its load.
BudgetsWith(s) ==
    IF s = Null
    THEN {[NoBudget EXCEPT !.turns = MaxTurns, !.starts = MaxStarts - 1, !.ticks = MaxClock],
          [NoBudget EXCEPT !.turns = MaxTurns - 1, !.starts = MaxStarts - 1,
                           !.saves = MaxSaves, !.loads = MaxLoads, !.quits = MaxQuits],
          [NoBudget EXCEPT !.turns = MaxTurns - 1, !.starts = MaxStarts - 1,
                           !.summaries = MaxSummaries, !.lookups = MaxLookups - 1],
          [NoBudget EXCEPT !.turns = MaxTurns - 1, !.starts = MaxStarts]}
    ELSE IF s = Str(EarlierSave)
    THEN {[NoBudget EXCEPT !.turns = MaxTurns - 1, !.saves = MaxSaves, !.loads = MaxLoads,
                           !.quits = MaxQuits],
          [NoBudget EXCEPT !.loads = MaxLoads, !.summaries = MaxSummaries,
                           !.lookups = MaxLookups]}
    ELSE {[NoBudget EXCEPT !.loads = MaxLoads]}

\* process.env.API_KEY: the build defines a key unless the store starts empty.
EnvKeyWith(s) == IF s = Null THEN <<>> ELSE Text("env-key")

\* The summary and the news lookup of a loaded game are explored in a build
\* with a key and in one without.
EnvKeysWith(s, b) ==
    IF s = Str(EarlierSave) /\ b.summaries > 0 THEN {<<>>, EnvKeyWith(s)} ELSE {EnvKeyWith(s)}

TypedKeys == {Text("key")}

TypedPremises == {Text("A \"dame\" walks in.")}

TypedActions == {Text(" look ")}

Modals == {"inventory", "characters", "storyline", "null"}

\* Math.floor(Math.random() * 15) + 5
LoadIncrements == {MinLoadStep, MaxLoadStep}

sessionVars == <<entries, stats, inventory, characters, achievements, premise>>

advisoryVars ==
    <<caseSummary, isGeneratingSummary, newsContent, newsSources, isFetchingNews,
      summaries, lookups>>

\* A screen of App is up and takes input.
Shown(gs) == mounted /\ ~crashed /\ gameState = gs

\* The step is over: React renders the new state and runs the effects.
Rendered ==
    /\ crashed' = NextRenderThrows
    /\ toastTimers' = RunningTimers(crashed', toastTimers)

Init ==
    /\ ServiceInit
    /\ TypewriterIdle
    /\ DriverIdle
    /\ ParseIdle
    /\ \E s \in InitialStores : \E b \in BudgetsWith(s) :
           \E e \in EnvKeysWith(s, b) : AppStart(s, e, b)

\* The mount effect.
Mount ==
    /\ UNCHANGED <<saves, loads, quits, budget, advisoryVars>>
    /\ ~mounted
    /\ mounted' = TRUE
    /\ aiInstance' = IF envApiKey # <<>> THEN initializeGemini(aiInstance, envApiKey)
                     ELSE aiInstance
    /\ hasSave' = IF Truthy(store) THEN TRUE ELSE hasSave
    /\ UNCHANGED <<gameState, sessionVars, isProcessing, errorMsg, userApiKey,
                   recentAchievement, activeModal, tvChannel, loadingProgress,
                   store, envApiKey, now, pending, saved, turns, starts>>
    /\ UNCHANGED <<chatSession, sessionsCreated, sentCount, parseVars, typewriterVars, driverVars>>
    /\ Rendered

handleSave ==
    /\ UNCHANGED <<loads, quits, budget, advisoryVars>>
    /\ Shown("PLAYING")
    /\ activeModal = "storyline"
    /\ saves < budget.saves
    /\ saves' = saves + 1
    /\ store' = Str(JSONstringify(SaveData(entries, stats, inventory, characters,
                                           achievements, premise, now)))
    /\ hasSave' = TRUE
    /\ saved' = [taken |-> TRUE, turns |-> turns,
                 data |-> <<entries, stats, inventory, characters, achievements, premise>>]
    /\ UNCHANGED <<gameState, sessionVars, isProcessing, errorMsg, userApiKey,
                   recentAchievement, activeModal, tvChannel, loadingProgress,
                   envApiKey, now, mounted, pending, turns, starts>>
    /\ UNCHANGED <<serviceVars, parseVars, typewriterVars, driverVars>>
    /\ Rendered

\* A slip: the loaded record's achievements are dropped.
LoadedFieldNoAchievements(data, key) ==
    IF key = kAchievements THEN Arr(<<>>) ELSE Get(data, key)

\* data.key of the parsed record
LoadedField(data, key) == Get(data, key)

handleLoad ==
    /\ UNCHANGED <<saves, quits, budget, advisoryVars>>
    /\ Shown("START")
    /\ tvChannel = "MENU"
    /\ hasSave
    /\ loads < budget.loads
    /\ loads' = loads + 1
    /\ LET Parsed(parsedRaw) ==
               IF parsedRaw.ok /\ Readable(parsedRaw.val)
               THEN /\ entries' = LoadedField(parsedRaw.val, kEntries)
                    /\ stats' = LoadedField(parsedRaw.val, kStats)
                    /\ inventory' = LoadedField(parsedRaw.val, kInventory)
                    /\ characters' = LoadedField(parsedRaw.val, kCharacters)
                    /\ achievements' = LoadedField(parsedRaw.val, kAchievements)
                    /\ premise' = LoadedField(parsedRaw.val, kPremise)
                    /\ gameState' = "LOADING_ANIMATION"
                    /\ UNCHANGED <<store, hasSave>>
               ELSE /\ store' = Null
                    /\ hasSave' = FALSE
                    /\ UNCHANGED <<sessionVars, gameState>>
       IN  IF ~Truthy(store)
           THEN UNCHANGED <<sessionVars, gameState, store, hasSave>>
           ELSE Parsed(JSONparse(store.v))
    /\ UNCHANGED <<isProcessing, errorMsg, userApiKey, recentAchievement, activeModal,
                   tvChannel, loadingProgress, envApiKey, now, mounted, pending,
                   saved, turns, starts>>
    /\ UNCHANGED <<serviceVars, parseVars, typewriterVars, driverVars>>
    /\ Rendered

handleDeleteSave ==
    /\ UNCHANGED <<saves, loads, quits, budget, advisoryVars>>
    /\ Shown("START")
    /\ tvChannel = "MENU"
    /\ hasSave
    /\ tvChannel' = "ERASE_CONFIRM"
    /\ UNCHANGED <<gameState, sessionVars, isProcessing, errorMsg, userApiKey,
                   recentAchievement, activeModal, hasSave, loadingProgress,
                   store, envApiKey, now, mounted, pending, saved, turns, starts>>
    /\ UNCHANGED <<serviceVars, parseVars, typewriterVars, driverVars>>
    /\ Rendered

\* A slip of confirmDelete: the record is removed, hasSave is left as it was.
confirmDeleteKeepsFlag ==
    /\ UNCHANGED <<saves, loads, quits, budget, advisoryVars>>
    /\ Shown("START")
    /\ tvChannel = "ERASE_CONFIRM"
    /\ store' = Null
    /\ tvChannel' = "MENU"
    /\ saved' = NoSave
    /\ UNCHANGED <<gameState, sessionVars, isProcessing, errorMsg, userApiKey,
                   recentAchievement, activeModal, hasSave, loadingProgress,
                   envApiKey, now, mounted, pending, turns, starts>>
    /\ UNCHANGED <<serviceVars, parseVars, typewriterVars, driverVars>>
    /\ Rendered

confirmDelete ==
    /\ UNCHANGED <<saves, loads, quits, budget, advisoryVars>>
    /\ Shown("START")
    /\ tvChannel = "ERASE_CONFIRM"
    /\ store' = Null
    /\ hasSave' = FALSE
    /\ tvChannel' = "MENU"
    /\ saved' = NoSave
    /\ UNCHANGED <<gameState, sessionVars, isProcessing, errorMsg, userApiKey,
                   recentAchievement, activeModal, loadingProgress,
                   envApiKey, now, mounted, pending, turns, starts>>
    /\ UNCHANGED <<serviceVars, parseVars, typewriterVars, driverVars>>
    /\ Rendered

prepareNewGame ==
    /\ UNCHANGED <<saves, loads, quits, budget, advisoryVars>>
    /\ Shown("START")
    /\ tvChannel = "MENU"
    /\ tvChannel' = "SETUP"
    /\ errorMsg' = Null
    /\ UNCHANGED <<gameState, sessionVars, isProcessing, userApiKey,
                   recentAchievement, activeModal, hasSave, loadingProgress,
                   store, envApiKey, now, mounted, pending, saved, turns, starts>>
    /\ UNCHANGED <<serviceVars, parseVars, typewriterVars, driverVars>>
    /\ Rendered

\* The buttons of the TV screen that only switch the channel.
setTvChannel(channel) ==
    /\ UNCHANGED <<saves, loads, quits, budget, advisoryVars>>
    /\ Shown("START")
    /\ \/ tvChannel = "MENU" /\ hasSave /\ channel = "TIMELINE"
       \/ tvChannel = "MENU" /\ channel = "CONFIG"
       \/ tvChannel \in {"SETUP", "ERASE_CONFIRM", "CONFIG", "TIMELINE"} /\ channel = "MENU"
    /\ tvChannel' = channel
    /\ UNCHANGED <<gameState, sessionVars, isProcessing, errorMsg, userApiKey,
                   recentAchievement, activeModal, hasSave, loadingProgress,
                   store, envApiKey, now, mounted, pending, saved, turns, starts>>
    /\ UNCHANGED <<serviceVars, parseVars, typewriterVars, driverVars>>
    /\ Rendered

\* The premise textarea of the setup channel.
setPremise(typed) ==
    /\ UNCHANGED <<saves, loads, quits, budget, advisoryVars>>
    /\ Shown("START")
    /\ tvChannel = "SETUP"
    /\ premise' = Str(typed)
    /\ UNCHANGED <<gameState, entries, stats, inventory, characters, achievements,
                   isProcessing, errorMsg, userApiKey, recentAchievement, activeModal,
                   tvChannel, hasSave, loadingProgress, store, envApiKey, now, mounted,
                   pending, saved, turns, starts>>
    /\ UNCHANGED <<serviceVars, parseVars, typewriterVars, driverVars>>
    /\ Rendered

\* The key input of the config channel, shown where the build has no key.
setUserApiKey(typed) ==
    /\ UNCHANGED <<saves, loads, quits, budget, advisoryVars>>
    /\ Shown("START")
    /\ tvChannel = "CONFIG"
    /\ envApiKey = <<>>
    /\ userApiKey' = typed
    /\ UNCHANGED <<gameState, sessionVars, isProcessing, errorMsg,
                   recentAchievement, activeModal, tvChannel, hasSave, loadingProgress,
                   store, envApiKey, now, mounted, pending, saved, turns, starts>>
    /\ UNCHANGED <<serviceVars, parseVars, typewriterVars, driverVars>>
    /\ Rendered

\* startInvestigation up to its await.
startInvestigation ==
    /\ UNCHANGED <<saves, loads, quits, budget, advisoryVars>>
    /\ Shown("START")
    /\ tvChannel = "SETUP"
    /\ starts < budget.starts
    /\ LET keyToUse == IF envApiKey # <<>> THEN envApiKey ELSE userApiKey
           ai == initializeGemini(aiInstance, keyToUse)
           b == StartNewStoryBegin(ai, chatSession, sessionsCreated + 1, premise)
       IN  IF trim(keyToUse) = <<>>
           THEN /\ errorMsg' = Str(Text("API Key Missing. Check Config Channel."))
                /\ isProcessing' = FALSE
                /\ UNCHANGED <<serviceVars, pending, starts>>
           ELSE /\ aiInstance' = ai
                /\ chatSession' = b.session
                /\ sessionsCreated' = IF b.threw THEN sessionsCreated ELSE sessionsCreated + 1
                /\ sentCount' = Sent(sentCount, b.message)
                /\ starts' = starts + 1
                /\ IF b.threw
                   THEN /\ errorMsg' = Str(Text("Signal Lost. Check Connection."))
                        /\ isProcessing' = FALSE
                        /\ UNCHANGED pending
                   ELSE /\ errorMsg' = Null
                        /\ isProcessing' = TRUE
                        /\ pending' = pending \cup {StartClosure(sentCount + 1)}
    /\ UNCHANGED <<gameState, sessionVars, userApiKey, recentAchievement, activeModal,
                   tvChannel, hasSave, loadingProgress, store, envApiKey, now, mounted,
                   saved, turns>>
    /\ UNCHANGED <<parseVars, typewriterVars, driverVars>>
    /\ Rendered

\* startInvestigation after its await: startNewStory has returned.
startInvestigationResumes(p, outcome) ==
    /\ UNCHANGED <<saves, loads, quits, budget, advisoryVars>>
    /\ mounted /\ ~crashed
    /\ p \in pending /\ p.kind = "start"
    /\ LET Returned(response) ==
               /\ stats' = Get(response, kStats)
               /\ inventory' = Get(response, kInventory)
               /\ characters' = IF Truthy(Get(response, kCharacters))
                                THEN Get(response, kCharacters) ELSE Arr(<<>>)
               /\ achievements' = Arr(<<>>)
               /\ entries' = Arr(<<newEntry(response)>>)
       IN  Returned(StartNewStoryReturn(outcome))
    /\ gameState' = "LOADING_ANIMATION"
    /\ isProcessing' = FALSE
    /\ pending' = pending \ {p}
    /\ UNCHANGED <<premise, errorMsg, userApiKey, recentAchievement, activeModal,
                   tvChannel, hasSave, loadingProgress, store, envApiKey, now, mounted,
                   saved, turns, starts>>
    /\ UNCHANGED <<serviceVars, parseVars, typewriterVars, driverVars>>
    /\ Rendered

\* The rest of handleUserAction once generateNextEntry has returned response
\* to the call that captured p, or has thrown; before holds the transcript
\* the narrator's entry is appended to.
ApplyTurn(p, threw, response, before) ==
    IF threw
    THEN /\ entries' = Spread(before, <<errorEntry>>)
         /\ UNCHANGED <<stats, inventory, characters, achievements, recentAchievement>>
         /\ isProcessing' = FALSE
         /\ crashed' = (NextRenderThrows \/ SpreadThrows(before))
         /\ toastTimers' = RunningTimers(crashed', toastTimers)
    ELSE LET Set(applied) ==
                 /\ stats' = applied.stats
                 /\ inventory' = applied.inventory
                 /\ characters' = applied.characters
                 /\ achievements' = applied.achievements
                 /\ recentAchievement' = applied.recentAchievement
                 /\ entries' = Spread(before, <<IF applied.caught THEN errorEntry
                                                ELSE aiEntry(response)>>)
                 /\ isProcessing' = FALSE
                 /\ crashed' = (NextRenderThrows \/ SpreadThrows(before)
                                   \/ applied.updaterThrows)
                 /\ toastTimers' =
                        RunningTimers(crashed',
                                      IF applied.surfaced
                                      THEN ToastEffect(toastTimers, applied.recentAchievement, p.id)
                                      ELSE toastTimers)
         IN  Set(AppliedTurn(p, response))

\* handleUserAction(actionText) up to its await, and to its end where
\* generateNextEntry throws or answers without a model call.
handleUserAction(actionText) ==
    /\ UNCHANGED <<saves, loads, quits, budget, advisoryVars>>
    /\ turns < budget.turns
    /\ turns' = turns + 1
    /\ UNCHANGED <<gameState, premise, errorMsg, userApiKey, tvChannel, hasSave,
                   loadingProgress, store, envApiKey, now, mounted, saved, starts>>
    /\ UNCHANGED <<aiInstance, chatSession, sessionsCreated, parseVars, typewriterVars, driverVars>>
    /\ LET b == GenerateNextEntryBegin(chatSession, actionText, stats, inventory, characters)
           p == Closure(sentCount + 1, actionText)
           submitted == Spread(entries, <<userEntry(actionText)>>)
       IN  /\ sentCount' = Sent(sentCount, b.message)
           /\ IF b.done
              THEN /\ UNCHANGED pending
                   /\ ApplyTurn(p, b.threw,
                                NextFallback(p.stats, p.inventory, p.characters), submitted)
              ELSE /\ pending' = pending \cup {p}
                   /\ entries' = submitted
                   /\ isProcessing' = TRUE
                   /\ UNCHANGED <<stats, inventory, characters, achievements,
                                  recentAchievement>>
                   /\ crashed' = (NextRenderThrows \/ SpreadThrows(entries))
                   /\ toastTimers' = RunningTimers(crashed', toastTimers)

\* The input bar submits the trimmed text unless a call is being processed.
InputBarSubmit(typed) ==
    /\ Shown("PLAYING")
    /\ trim(typed) # <<>>
    /\ ~isProcessing
    /\ UNCHANGED activeModal
    /\ handleUserAction(trim(typed))

\* The Inspect button beside the i-th item of the evidence modal.
InspectItem(i) ==
    /\ Shown("PLAYING")
    /\ activeModal = "inventory"
    /\ inventory.t = "array"
    /\ i \in 1..Len(inventory.v)
    /\ activeModal' = "null"
    /\ handleUserAction(Text("Inspect ") \o ToStringJS(inventory.v[i]))

\* handleUserAction after its await: generateNextEntry has returned.
handleUserActionResumes(p, outcome) ==
    /\ UNCHANGED <<saves, loads, quits, budget, advisoryVars>>
    /\ mounted /\ ~crashed
    /\ p \in pending /\ p.kind = "turn"
    /\ pending' = pending \ {p}
    /\ UNCHANGED <<gameState, premise, errorMsg, userApiKey, activeModal, tvChannel,
                   hasSave, loadingProgress, store, envApiKey, now, mounted, saved,
                   turns, starts>>
    /\ UNCHANGED <<serviceVars, parseVars, typewriterVars, driverVars>>
    /\ ApplyTurn(p, FALSE,
                 GenerateNextEntryReturn(outcome, p.stats, p.inventory, p.characters),
                 entries)

resetToMenu ==
    /\ UNCHANGED <<saves, loads, budget>>
    /\ Shown("PLAYING")
    /\ quits < budget.quits
    /\ quits' = quits + 1
    /\ gameState' = "START"
    /\ loadingProgress' = 0
    /\ activeModal' = "null"
    /\ tvChannel' = "MENU"
    /\ caseSummary' = Null
    /\ UNCHANGED <<isGeneratingSummary, newsContent, newsSources, isFetchingNews,
                   summaries, lookups>>
    /\ UNCHANGED <<sessionVars, isProcessing, errorMsg, userApiKey, recentAchievement,
                   hasSave, store, envApiKey, now, mounted, pending, saved, turns, starts>>
    /\ UNCHANGED <<serviceVars, parseVars, typewriterVars, driverVars>>
    /\ Rendered

\* What handleGenerateSummary and handleFetchNews hold across their await:
\* nothing they read again.  Calls are told apart by their number.
AdvisoryClosure(kind, id) ==
    [id |-> id, kind |-> kind, actionText |-> <<>>, stats |-> Undefined,
     inventory |-> Undefined, characters |-> Undefined, achievements |-> Undefined]

\* handleGenerateSummary's currentEntries.length > 0
SummaryWanted(currentEntries) ==
    LengthOf(currentEntries).t = "number" /\ LengthOf(currentEntries).v > 0

\* handleGenerateSummary up to its await, and to its end where there is
\* nothing to summarise or generateCaseSummary answers without a model call.
\* Reading the length of entries that are undefined or null throws out of
\* the handler and leaves isGeneratingSummary set.
handleGenerateSummary ==
    /\ UNCHANGED <<saves, loads, quits, budget, lookups>>
    /\ \/ Shown("START") /\ tvChannel = "TIMELINE"
       \/ Shown("PLAYING") /\ activeModal = "storyline"
    /\ ~isGeneratingSummary
    /\ summaries < budget.summaries
    /\ summaries' = summaries + 1
    /\ LET Begun(b) ==
               IF b.done
               THEN /\ caseSummary' = b.result
                    /\ isGeneratingSummary' = FALSE
                    /\ UNCHANGED pending
               ELSE /\ isGeneratingSummary' = TRUE
                    /\ pending' = pending \cup {AdvisoryClosure("summary", summaries')}
                    /\ UNCHANGED caseSummary
           With(currentEntries) ==
               IF ~Readable(currentEntries)
               THEN /\ isGeneratingSummary' = TRUE
                    /\ UNCHANGED <<caseSummary, pending>>
               ELSE IF SummaryWanted(currentEntries)
               THEN Begun(GenerateCaseSummaryBegin(aiInstance, currentEntries))
               ELSE /\ isGeneratingSummary' = FALSE
                    /\ UNCHANGED <<caseSummary, pending>>
       IN  With(timelineEntries(entries, store))
    /\ UNCHANGED <<gameState, sessionVars, isProcessing, errorMsg, userApiKey,
                   recentAchievement, activeModal, tvChannel, hasSave, loadingProgress,
                   newsContent, newsSources, isFetchingNews,
                   store, envApiKey, now, mounted, saved, turns, starts>>
    /\ UNCHANGED <<serviceVars, parseVars, typewriterVars, driverVars>>
    /\ Rendered

\* A slip of handleGenerateSummaryResumes: the summary is also written into
\* the transcript as a narrator's entry.
handleGenerateSummaryLogged(p, outcome) ==
    /\ UNCHANGED <<saves, loads, quits, budget, summaries, lookups>>
    /\ mounted /\ ~crashed
    /\ p \in pending /\ p.kind = "summary"
    /\ pending' = pending \ {p}
    /\ caseSummary' = GenerateCaseSummaryReturn(outcome)
    /\ entries' = Spread(entries, <<DiaryEntry(Text("sum-") \o NatToText(now),
                                               GenerateCaseSummaryReturn(outcome), now, FALSE)>>)
    /\ isGeneratingSummary' = FALSE
    /\ UNCHANGED <<gameState, stats, inventory, characters, achievements, premise,
                   isProcessing, errorMsg, userApiKey,
                   recentAchievement, activeModal, tvChannel, hasSave, loadingProgress,
                   newsContent, newsSources, isFetchingNews,
                   store, envApiKey, now, mounted, saved, turns, starts>>
    /\ UNCHANGED <<serviceVars, parseVars, typewriterVars, driverVars>>
    /\ Rendered

\* handleGenerateSummary after its await: generateCaseSummary has returned.
handleGenerateSummaryResumes(p, outcome) ==
    /\ UNCHANGED <<saves, loads, quits, budget, summaries, lookups>>
    /\ mounted /\ ~crashed
    /\ p \in pending /\ p.kind = "summary"
    /\ pending' = pending \ {p}
    /\ caseSummary' = GenerateCaseSummaryReturn(outcome)
    /\ isGeneratingSummary' = FALSE
    /\ UNCHANGED <<gameState, sessionVars, isProcessing, errorMsg, userApiKey,
                   recentAchievement, activeModal, tvChannel, hasSave, loadingProgress,
                   newsContent, newsSources, isFetchingNews,
                   store, envApiKey, now, mounted, saved, turns, starts>>
    /\ UNCHANGED <<serviceVars, parseVars, typewriterVars, driverVars>>
    /\ Rendered

\* The Fetch News button: setActiveModal('news'), then handleFetchNews up to
\* its await, and to its end where fetchWorldNews throws at once.
handleFetchNews ==
    /\ UNCHANGED <<saves, loads, quits, budget, summaries>>
    /\ Shown("PLAYING")
    /\ lookups < budget.lookups
    /\ lookups' = lookups + 1
    /\ activeModal' = "news"
    /\ newsSources' = Arr(<<>>)
    /\ IF FetchWorldNewsBegin(aiInstance, premise).threw
       THEN /\ newsContent' = Str(Text("Unable to fetch wire services."))
            /\ isFetchingNews' = FALSE
            /\ UNCHANGED pending
       ELSE /\ newsContent' = Null
            /\ isFetchingNews' = TRUE
            /\ pending' = pending \cup {AdvisoryClosure("news", lookups')}
    /\ UNCHANGED <<gameState, sessionVars, isProcessing, errorMsg, userApiKey,
                   recentAchievement, tvChannel, hasSave, loadingProgress,
                   caseSummary, isGeneratingSummary,
                   store, envApiKey, now, mounted, saved, turns, starts>>
    /\ UNCHANGED <<serviceVars, parseVars, typewriterVars, driverVars>>
    /\ Rendered

\* handleFetchNews after its await: fetchWorldNews has returned or thrown.
handleFetchNewsResumes(p, outcome) ==
    /\ UNCHANGED <<saves, loads, quits, budget, summaries, lookups>>
    /\ mounted /\ ~crashed
    /\ p \in pending /\ p.kind = "news"
    /\ pending' = pending \ {p}
    /\ LET Returned(result) ==
               IF result.threw
               THEN /\ newsContent' = Str(Text("Unable to fetch wire services."))
                    /\ UNCHANGED newsSources
               ELSE /\ newsContent' = IF Truthy(result.text) THEN result.text
                                      ELSE Str(Text("No headlines found."))
                    /\ newsSources' = IF Truthy(result.sources) THEN result.sources
                                      ELSE Arr(<<>>)
       IN  Returned(FetchWorldNewsReturn(outcome))
    /\ isFetchingNews' = FALSE
    /\ UNCHANGED <<gameState, sessionVars, isProcessing, errorMsg, userApiKey,
                   recentAchievement, activeModal, tvChannel, hasSave, loadingProgress,
                   caseSummary, isGeneratingSummary,
                   store, envApiKey, now, mounted, saved, turns, starts>>
    /\ UNCHANGED <<serviceVars, parseVars, typewriterVars, driverVars>>
    /\ Rendered

\* The modal buttons of the game screen and the modals' close buttons.
setActiveModal(modal) ==
    /\ UNCHANGED <<saves, loads, quits, budget, advisoryVars>>
    /\ Shown("PLAYING")
    /\ modal # activeModal
    /\ activeModal' = modal
    /\ UNCHANGED <<gameState, sessionVars, isProcessing, errorMsg, userApiKey,
                   recentAchievement, tvChannel, hasSave, loadingProgress,
                   store, envApiKey, now, mounted, pending, saved, turns, starts>>
    /\ UNCHANGED <<serviceVars, parseVars, typewriterVars, driverVars>>
    /\ Rendered

\* One tick of the loading effect's interval.
LoadingTick(step) ==
    /\ UNCHANGED <<saves, loads, quits, budget, advisoryVars>>
    /\ Shown("LOADING_ANIMATION")
    /\ IF loadingProgress >= LoadingDone
       THEN gameState' = "PLAYING" /\ loadingProgress' = LoadingDone
       ELSE loadingProgress' = loadingProgress + step /\ UNCHANGED gameState
    /\ UNCHANGED <<sessionVars, isProcessing, errorMsg, userApiKey, recentAchievement,
                   activeModal, tvChannel, hasSave, store, envApiKey, now, mounted,
                   pending, saved, turns, starts>>
    /\ UNCHANGED <<serviceVars, parseVars, typewriterVars, driverVars>>
    /\ Rendered

\* A timer of the toast effect fires: setRecentAchievement(null), and the
\* effect runs again on the null.
ToastTimerFires ==
    /\ UNCHANGED <<saves, loads, quits, budget, advisoryVars>>
    /\ mounted /\ ~crashed
    /\ UNCHANGED <<gameState, sessionVars, isProcessing, errorMsg, userApiKey,
                   activeModal, tvChannel, hasSave, loadingProgress,
                   store, envApiKey, now, mounted, pending, saved, turns, starts>>
    /\ UNCHANGED <<serviceVars, parseVars, typewriterVars, driverVars>>
    /\ \E timer \in toastTimers :
           /\ recentAchievement' = Null
           /\ crashed' = NextRenderThrows
           /\ toastTimers' = RunningTimers(crashed',
                                           ToastEffect(toastTimers \ {timer}, Null, timer))

\* Time passes.
ClockAdvances ==
    /\ UNCHANGED <<saves, loads, quits, budget, advisoryVars>>
    /\ mounted /\ ~crashed
    /\ now < budget.ticks
    /\ now' = now + 1
    /\ UNCHANGED <<gameState, sessionVars, isProcessing, errorMsg, userApiKey,
                   recentAchievement, activeModal, tvChannel, hasSave, loadingProgress,
                   store, envApiKey, mounted, pending, saved, turns, starts>>
    /\ UNCHANGED <<serviceVars, parseVars, typewriterVars, driverVars>>
    /\ Rendered

Next ==
    \/ Mount
    \/ handleSave
    \/ handleLoad
    \/ handleDeleteSave
    \/ confirmDelete
    \/ prepareNewGame
    \/ \E channel \in {"MENU", "CONFIG", "TIMELINE"} : setTvChannel(channel)
    \/ \E typed \in TypedPremises : setPremise(typed)
    \/ \E typed \in TypedKeys : setUserApiKey(typed)
    \/ startInvestigation
    \/ \E p \in pending, outcome \in AppOutcomes : startInvestigationResumes(p, outcome)
    \/ \E typed \in TypedActions : InputBarSubmit(typed)
    \/ \E i \in 1..MaxItems : InspectItem(i)
    \/ \E p \in pending, outcome \in TurnOutcomes : handleUserActionResumes(p, outcome)
    \/ resetToMenu
    \/ handleGenerateSummary
    \/ \E p \in pending, outcome \in SummaryOutcomes : handleGenerateSummaryResumes(p, outcome)
    \/ handleFetchNews
    \/ \E p \in pending, outcome \in NewsOutcomes : handleFetchNewsResumes(p, outcome)
    \/ \E modal \in Modals : setActiveModal(modal)
    \/ \E step \in LoadIncrements : LoadingTick(step)
    \/ ToastTimerFires
    \/ ClockAdvances

Spec == Init /\ [][Next]_vars

\* The browser runs a timer's callback once its delay is over unless the
\* timer has been cleared: a pending toast timer does not wait forever, and
\* the loading effect's interval keeps ticking while the animation is up.
SpecLive ==
    /\ Spec
    /\ WF_vars(ToastTimerFires)
    /\ WF_vars(\E step \in LoadIncrements : LoadingTick(step))

\* ------------------------------------------------------------------------
\* components/TypewriterText.tsx
\* ------------------------------------------------------------------------

\* The texts the component is given.
TypewriterTexts == {Text("ab"), Text("abc"), Text("noir")}

\* s.charAt(i): the character at the 0-based index i, empty past the end.
charAt(s, i) == IF i < Len(s) THEN <<s[i + 1]>> ELSE <<>>

\* window.setTimeout(typeChar, ...) in the effect run for the text t: the
\* timeout's id is the next one after the latest.
TimeoutSet(timers, latest, t) == timers \cup {[id |-> latest + 1, text |-> t]}

\* clearTimeout(timeoutRef.current)
TimeoutCleared(timers, ref) == {tm \in timers : tm.id # ref}

\* The component is mounted with some text and its effect has run:
\* displayedText '', index 0, the first timeout set.
InitTypewriter ==
    /\ ServiceInit
    /\ DriverIdle
    /\ ParseIdle
    /\ AppIdle
    /\ textProp \in TypewriterTexts
    /\ displayedText = <<>>
    /\ indexRef = 0
    /\ timeoutRef = 1
    /\ typeTimers = TimeoutSet({}, 0, textProp)
    /\ completions = 0
    /\ changes = 0

\* A timeout fires and runs the typeChar of the effect that set it.  The
\* updater prev => prev + text.charAt(indexRef.current) reads the ref when
\* React runs it: at the setDisplayedText call (eager), before the ref is
\* incremented, or at the render that follows the callback, after it.
typeChar(tm, eager) ==
    /\ tm \in typeTimers
    /\ IF indexRef < Len(tm.text)
       THEN /\ displayedText' =
                   displayedText \o charAt(tm.text, IF eager THEN indexRef ELSE indexRef + 1)
            /\ indexRef' = indexRef + 1
            /\ timeoutRef' = timeoutRef + 1
            /\ typeTimers' = TimeoutSet(typeTimers \ {tm}, timeoutRef, tm.text)
            /\ UNCHANGED completions
       ELSE /\ completions' = completions + 1
            /\ typeTimers' = typeTimers \ {tm}
            /\ UNCHANGED <<displayedText, indexRef, timeoutRef>>
    /\ UNCHANGED <<textProp, changes>>
    /\ UNCHANGED <<serviceVars, parseVars, driverVars, appVars>>

\* The text prop changes: the effect's cleanup clears the timeout of the ref,
\* and the effect runs again: displayedText '', index 0, the ref's timeout
\* cleared, a timeout set for the new text.
TextChanges(t) ==
    /\ changes < MaxChanges
    /\ t # textProp
    /\ changes' = changes + 1
    /\ textProp' = t
    /\ displayedText' = <<>>
    /\ indexRef' = 0
    /\ timeoutRef' = timeoutRef + 1
    /\ typeTimers' = TimeoutSet(TimeoutCleared(typeTimers, timeoutRef), timeoutRef, t)
    /\ completions' = 0
    /\ UNCHANGED <<serviceVars, parseVars, driverVars, appVars>>

NextTypewriter ==
    \/ \E tm \in typeTimers, eager \in BOOLEAN : typeChar(tm, eager)
    \/ \E t \in TypewriterTexts : TextChanges(t)

SpecTypewriter == InitTypewriter /\ [][NextTypewriter]_vars

\* The browser runs a timeout's callback unless the timeout is cleared.
SpecTypewriterLive ==
    SpecTypewriter /\ WF_vars(\E tm \in typeTimers, eager \in BOOLEAN : typeChar(tm, eager))

\* ------------------------------------------------------------------------
\* Claims about safeJsonParse (checked under SpecParse)
\* ------------------------------------------------------------------------

Wrapped == ppc = "done" /\ shape.kind = "wrapped"

\* The object's text parsed on its own.
ObjectAlone == JSONparse(shape.obj).val

\* C1 as stated: every text made of one well-formed JSON object, optionally
\* fenced, optionally preceded and followed by prose, parses to that object
\* and never to the failure value.
C1_AnyWrappedObjectParses ==
    Wrapped => (parsed # Null /\ parsed = ObjectAlone)

\* The prose before the object holds no {, the prose after it no }, and the
\* object's own text holds no fence marker.
CleanlyWrapped ==
    /\ Wrapped
    /\ indexOf(shape.pre, "{") = -1
    /\ lastIndexOf(shape.post, "}") = -1
    /\ ~includes(shape.obj, Fence)

\* C1 amended: a text made of one well-formed JSON object, optionally fenced,
\* optionally preceded by prose without { and followed by prose without },
\* the object holding no fence marker, parses to that object and never to null.
C1_CleanlyWrappedObjectParses ==
    CleanlyWrapped => (parsed # Null /\ parsed = ObjectAlone)

C1_Witness ==
    /\ CleanlyWrapped
    /\ shape.pre # <<>> /\ shape.open # <<>> /\ shape.close # <<>> /\ shape.post # <<>>
    /\ indexOf(shape.post, "{") # -1
    /\ parsed.t = "object" /\ Len(parsed.v) = 4

HasBracePair(s) == \E i, j \in 1..Len(s) : i < j /\ s[i] = "{" /\ s[j] = "}"

\* The span from the first { to the last } of the trimmed, fence-stripped text.
BraceSpan(s) ==
    LET c == StripFences(trim(s))
    IN  SubSeq(c, indexOf(c, "{") + 1, lastIndexOf(c, "}") + 1)

\* C2: a raw text with no { ... } pair, or whose span from the first { to the
\* last } is not well-formed JSON, makes safeJsonParse return null.
C2_NoObjectIsFailure ==
    (ppc = "done" /\ (~HasBracePair(raw) \/ ~JSONparse(BraceSpan(raw)).ok)) => parsed = Null

HasRequiredFields(x) == x.t = "object" /\ \A f \in RequiredFields : HasKey(x.v, f)

\* C3: a text that parses as JSON but lacks one of narrative, stats,
\* inventory, characters makes the validator return failure (null).
C3_MissingFieldIsFailure ==
    (ppc = "done" /\ ~HasRequiredFields(parsed)) => parsed = Null

\* ------------------------------------------------------------------------
\* Claims about startNewStory and generateNextEntry (checked under SpecService)
\* ------------------------------------------------------------------------

\* The latest call is over: it returned or threw.
CallOver(fn) == call.fn = fn /\ call.status \in {"returned", "threw"}

\* The model call threw, returned empty text, or returned text that does not
\* decode into an object holding narrative, stats, inventory and characters.
ModelCallFailed ==
    \/ call.outcome.kind = "reject"
    \/ ~Truthy(call.outcome.text)
    \/ ~HasRequiredFields(safeJsonParse(call.outcome.text.v))

\* C4: with an active session, when generateNextEntry's model call throws,
\* returns empty text or returns text that fails validation, the call returns
\* (it does not throw) the fixed connection-error narrative with exactly the
\* caller's currentStats, currentInventory and currentCharacters.
C4_FallbackKeepsCallerState ==
    (CallOver("generateNextEntry") /\ call.sessionBefore # 0 /\ ModelCallFailed)
        => /\ call.status = "returned"
           /\ call.result =
                Obj(<<Prop(Text("narrative"),
                           Str(Text("The shadows lengthen... (AI Connection Error)"))),
                      Prop(Text("stats"), call.currentStats),
                      Prop(Text("inventory"), call.currentInventory),
                      Prop(Text("characters"), call.currentCharacters)>>)

\* C5: with an initialized model connection, when startNewStory's model call
\* throws, returns empty text or returns text that fails validation, the call
\* returns (it does not throw) one fixed response whatever the premise: stats
\* 100/100/0, inventory ["(Unknown)"], no characters, the fixed narrative.
C5_StartFallbackIsFixed ==
    (CallOver("startNewStory") /\ call.aiBefore /\ ModelCallFailed)
        => /\ call.status = "returned"
           /\ call.result =
                Obj(<<Prop(Text("narrative"),
                           Str(Text("The city is quiet tonight. Too quiet. (System Error)"))),
                      Prop(Text("stats"),
                           Obj(<<Prop(Text("health"), Num(100)), Prop(Text("resolve"), Num(100)),
                                 Prop(Text("suspicion"), Num(0))>>)),
                      Prop(Text("inventory"), Arr(<<Str(Text("(Unknown)"))>>)),
                      Prop(Text("characters"), Arr(<<>>))>>)

\* The action is empty or holds white space only.
BlankAction == \A i \in 1..Len(call.userAction) : call.userAction[i] \in JsWhiteSpace

\* C6: generateNextEntry called with an empty or whitespace-only action sends
\* exactly the message that the same call with the action "I wait." sends,
\* and that message carries the action "I wait.".
C6_BlankActionIsWait ==
    (call.fn = "generateNextEntry" /\ call.message.kind = "turn" /\ BlankAction)
        => /\ call.message.action = Text("I wait.")
           /\ call.message = NextPrompt(Text("I wait."), call.currentStats,
                                        call.currentInventory, call.currentCharacters)

C6_Witness ==
    /\ call.fn = "generateNextEntry" /\ call.message.kind = "turn"
    /\ BlankAction /\ Len(call.userAction) > 1
    /\ call.status = "returned" /\ call.outcome.kind = "resolve"
    /\ call.currentCharacters = Arr(<<Joe>>)
    /\ sentCount = call.sentBefore + 1

\* C10: generateNextEntry called while no session is open throws "Game session
\* not active.", returns nothing, sends no message and leaves chatSession null.
C10_NoSessionThrows ==
    (call.fn = "generateNextEntry" /\ call.sessionBefore = 0)
        => /\ call.status = "threw"
           /\ call.error = "Game session not active."
           /\ call.result = Undefined
           /\ call.message.kind = "none"
           /\ sentCount = call.sentBefore
           /\ chatSession = 0

C10_Witness ==
    /\ call.fn = "generateNextEntry" /\ call.sessionBefore = 0
    /\ call.status = "threw"
    /\ aiInstance /\ ncalls > 1
    /\ call.userAction = Text("look around")

\* ------------------------------------------------------------------------
\* Claims about App's handlers (checked under Spec)
\* ------------------------------------------------------------------------

\* The ids the endpoint's responses deliver achievements under.
DeliveredIds == {Str(Text("a1"))}

\* The set achs holds exactly one entry with the id.
HeldOnce(achs, id) ==
    /\ achs.t = "array"
    /\ Cardinality({j \in 1..Len(achs.v) : Get(achs.v[j], kId) = id}) = 1

\* The step is a suspended handleUserAction resuming: it applies the turn's
\* response.
TurnApplies == \E p \in pending : p.kind = "turn" /\ pending' = pending \ {p}

\* C7: applying a turn never adds another entry under an id the achievement
\* set already holds: an id held once is still held once after the turn,
\* whether or not the turn's response delivers it again.
C7_MergeIsIdempotent ==
    [][ \A id \in DeliveredIds :
            (TurnApplies /\ HeldOnce(achievements, id)) => HeldOnce(achievements', id) ]_vars

\* The step is a call of handleLoad.
LoadRuns == loads' = loads + 1

SaveRecordFields == {kEntries, kStats, kInventory, kCharacters, kAchievements, kPremise}

\* The stored record sv is not the text of a save: it is no JSON, or its value
\* is not an object holding the fields of a save.
CorruptRecord(sv) ==
    /\ Truthy(sv)
    /\ \/ ~JSONparse(sv.v).ok
       \/ JSONparse(sv.v).val.t # "object"
       \/ \E f \in SaveRecordFields : ~HasKey(JSONparse(sv.v).val.v, f)

\* C9: handleLoad on a corrupt or unparsable record removes the record, sets
\* hasSave to false, leaves entries, stats, inventory, characters,
\* achievements and premise as they were, and stays in the START state.
C9_CorruptRecordIsDiscarded ==
    [][ (LoadRuns /\ CorruptRecord(store))
            => /\ store' = Null
               /\ hasSave' = FALSE
               /\ UNCHANGED sessionVars
               /\ gameState' = "START" ]_vars

\* Neither the build nor the config channel holds a key that is not blank.
NoApiKey == trim(IF envApiKey # <<>> THEN envApiKey ELSE userApiKey) = <<>>

\* startNewStory called now, with no aiInstance.
UnconnectedStart == StartNewStoryBegin(FALSE, chatSession, sessionsCreated + 1, premise)

\* C11: without a model connection beginning a story fails fast.  startNewStory
\* with no aiInstance throws before it creates a session or sends a message;
\* startInvestigation with no key sends nothing, creates and replaces no
\* session, sets an error message, leaves entries, stats, inventory,
\* characters, achievements and gameState as they were and ends with
\* isProcessing false.
C11_BeginStoryFailsFast ==
    /\ [](/\ UnconnectedStart.threw
          /\ UnconnectedStart.done
          /\ UnconnectedStart.message.kind = "none"
          /\ UnconnectedStart.session = chatSession)
    /\ [][ (startInvestigation /\ NoApiKey)
               => /\ UNCHANGED <<aiInstance, chatSession, sessionsCreated, sentCount, pending>>
                  /\ Truthy(errorMsg')
                  /\ UNCHANGED <<entries, stats, inventory, characters, achievements,
                                 gameState>>
                  /\ isProcessing' = FALSE ]_vars

C11_Witness ==
    /\ errorMsg = Str(Text("API Key Missing. Check Config Channel."))
    /\ gameState = "START" /\ tvChannel = "SETUP"
    /\ NoApiKey /\ ~aiInstance
    /\ ~isProcessing
    /\ chatSession = 0 /\ sentCount = 0 /\ pending = {}

\* The generateNextEntry calls App is awaiting.
TurnsInFlight == {p \in pending : p.kind = "turn"}

\* C12: whatever the user does in the input bar and with the Inspect buttons
\* of the evidence modal, at most one generateNextEntry call is in flight.
C12_AtMostOneTurnInFlight == Cardinality(TurnsInFlight) <= 1

\* The last entry of the transcript es, where it has one.
LastEntry(es) == IF es.t = "array" /\ Len(es.v) > 0 THEN es.v[Len(es.v)] ELSE Undefined

\* The step ends a turn in the fallback path: it appends the narrator's entry
\* that generateNextEntry's catch block answers with.
FallbackApplied ==
    /\ LengthOf(entries') # LengthOf(entries)
    /\ Get(LastEntry(entries'), kText) = Get(NextFallback(Undefined, Undefined, Undefined),
                                              kNarrative)

\* C13: applying the result of a turn that ended in the fallback path leaves
\* stats, inventory and characters as they were immediately before, whatever
\* other turns and intents came in between.
C13_FallbackKeepsSessionState ==
    [][ FallbackApplied => UNCHANGED <<stats, inventory, characters>> ]_vars

\* The names of the characters in the roster cs.
RosterNames(cs) ==
    IF cs.t = "array" THEN {Get(cs.v[i], kName) : i \in 1..Len(cs.v)} ELSE {}

\* C14: applying a turn deletes no character: every name in the roster
\* before the turn's response is applied is in the roster after it.
C14_CharactersNeverDeleted ==
    [][ TurnApplies => RosterNames(characters) \subseteq RosterNames(characters') ]_vars

\* C15: in every state no two entries of the achievement set have the same id.
C15_AchievementIdsAreUnique ==
    achievements.t = "array"
        => \A i, j \in 1..Len(achievements.v) :
               i # j => Get(achievements.v[i], kId) # Get(achievements.v[j], kId)

\* The step submits a turn or applies a turn's response.
TurnStep == turns' = turns + 1 \/ TurnApplies

IsPrefix(a, b) == Len(a) <= Len(b) /\ SubSeq(b, 1, Len(a)) = a

\* C16: a turn only appends to the achievement set: the set before the step
\* is a prefix of the set after it, so every achievement stays, at its
\* position, with its id, title and description.
C16_AchievementsOnlyGrow ==
    [][ (TurnStep /\ achievements.t = "array")
            => /\ achievements'.t = "array"
               /\ IsPrefix(achievements.v, achievements'.v) ]_vars

C16_Witness ==
    /\ achievements = Arr(<<Badge, Medal>>)
    /\ turns = 2 /\ pending = {}
    /\ gameState = "PLAYING" /\ ~crashed

\* C17: a turn only appends to the transcript: on every step that submits a
\* turn or applies a turn's result (a response, the fallback or a thrown
\* call) the transcript before the step is a prefix of the transcript after.
C17_TranscriptIsAppendOnly ==
    [][ TurnStep => /\ entries.t = "array" /\ entries'.t = "array"
                    /\ IsPrefix(entries.v, entries'.v) ]_vars

\* A loaded game whose one turn threw: the saved entry, the detective's and
\* the error entry.
C17_Witness ==
    /\ turns = 1 /\ loads = 1 /\ chatSession = 0
    /\ entries.t = "array" /\ Len(entries.v) = 3
    /\ Get(entries.v[1], kText) = Str(Text("Rain."))
    /\ Get(entries.v[2], kIsUserAction) = Bool(TRUE)
    /\ entries.v[3] = errorEntry

\* The achievements of the list delivered whose id the set achs lacks.
GenuinelyNew(delivered, achs) ==
    IF HasElements(delivered) /\ delivered.t = "array" THEN uniqueNew(delivered, achs)
    ELSE <<>>

\* The new achievements fresh are appended in their order and the first of
\* them is surfaced; with none, nothing changes.
MergedExactly(fresh) ==
    IF fresh # <<>>
    THEN /\ achievements' = Spread(achievements, fresh)
         /\ recentAchievement' = fresh[1]
    ELSE UNCHANGED <<achievements, recentAchievement>>

\* C18: applying a turn's response appends exactly the delivered achievements
\* whose id the achievement set does not hold yet, in response order, and
\* sets recentAchievement to the first of them; where the response holds none
\* that is new, the achievement set and recentAchievement stay as they were.
C18_MergeAppendsExactlyTheNew ==
    [][ \A p \in pending, outcome \in TurnOutcomes :
            handleUserActionResumes(p, outcome)
                => MergedExactly(GenuinelyNew(
                       Get(GenerateNextEntryReturn(outcome, p.stats, p.inventory,
                                                   p.characters), kNewAchievements),
                       achievements)) ]_vars

AdvisoryStep ==
    \/ summaries' = summaries + 1
    \/ lookups' = lookups + 1
    \/ \E p \in pending : p.kind \in {"summary", "news"} /\ pending' = pending \ {p}

\* C20: the advisory operations never change the session: a call of
\* handleGenerateSummary or handleFetchNews, and its resumption after
\* generateCaseSummary or fetchWorldNews has answered, refused or thrown,
\* leaves the transcript, the stats, the inventory, the characters, the
\* achievements, the premise, the chat session and what was sent over it
\* as they were.
C20_AdvisoryKeepsSessionState ==
    [][ AdvisoryStep => UNCHANGED <<entries, stats, inventory, characters, achievements,
                                    premise, aiInstance, chatSession, sessionsCreated,
                                    sentCount>> ]_vars

\* A game in play whose summary was compiled and whose news lookup failed,
\* with the transcript still in place.
C20_Witness ==
    /\ gameState = "PLAYING" /\ pending = {}
    /\ summaries = 1 /\ lookups = 1
    /\ caseSummary = Str(Text("- A clue."))
    /\ newsContent = Str(Text("Unable to fetch wire services."))
    /\ entries.t = "array" /\ entries.v # <<>>
    /\ chatSession # 0

\* The step is a news lookup failing: fetchWorldNews throws at once for want
\* of an aiInstance, or a suspended handleFetchNews resumes into its catch.
NewsLookupFails ==
    \/ handleFetchNews /\ FetchWorldNewsBegin(aiInstance, premise).threw
    \/ \E p \in pending : \E outcome \in NewsOutcomes :
           /\ FetchWorldNewsReturn(outcome).threw
           /\ handleFetchNewsResumes(p, outcome)

\* C21: a news lookup that fails leaves the fixed text as the news shown,
\* an empty list of sources and the fetching flag cleared, and the failure
\* does not take App down.
C21_NewsFailureShowsFixedResult ==
    [][ NewsLookupFails => /\ newsContent' = Str(Text("Unable to fetch wire services."))
                           /\ newsSources' = Arr(<<>>)
                           /\ isFetchingNews' = FALSE
                           /\ ~crashed' ]_vars

\* A turn that was submitted before the step is still awaiting its response
\* after it.
TurnStaysPending == \E p \in pending : p.kind = "turn" /\ p \in pending'

\* C22: while a turn awaits its response nothing else changes the session:
\* every step that leaves a submitted turn pending, a quit, a load, a new
\* game or another turn among them, leaves the transcript, the stats, the
\* inventory, the characters and the achievements as they were, so that the
\* response is applied to the session the turn was submitted against.
C22_TurnOwnsSessionState ==
    [][ TurnStaysPending =>
            UNCHANGED <<entries, stats, inventory, characters, achievements>> ]_vars

\* The fallback response of the latest call.
FallbackOf(c) ==
    IF c.fn = "startNewStory" THEN StartFallback
    ELSE NextFallback(c.currentStats, c.currentInventory, c.currentCharacters)

\* C23: there is no retry.  From its start to the start of the next call a
\* call of startNewStory or generateNextEntry has handed the endpoint at
\* most one message, exactly one if it got as far as its send; the step in
\* which the awaited send settles sends nothing; and a call whose send was
\* rejected has returned its fallback response.
C23_NoRetry ==
    /\ [](call.fn # "none" =>
              /\ sentCount - call.sentBefore \in {0, 1}
              /\ sentCount = call.sentBefore + 1 <=> call.message.kind # "none")
    /\ [][ (call.status = "pending" /\ call'.status # "pending")
               => /\ sentCount' = sentCount
                  /\ call'.status = "returned"
                  /\ call'.outcome.kind = "reject" => call'.result = FallbackOf(call) ]_vars

\* After a startNewStory that sent its message, a generateNextEntry whose
\* one send was rejected: two messages in all, and the fallback returned.
C23_Witness ==
    /\ call.fn = "generateNextEntry" /\ call.status = "returned"
    /\ call.message.kind = "turn" /\ call.outcome.kind = "reject"
    /\ call.sentBefore = 1 /\ sentCount = 2 /\ sessionsCreated = 1
    /\ call.result = FallbackOf(call)

\* C24: the entries of the transcript bear pairwise distinct ids, in every
\* state, whether or not the clock advanced between the making of two of
\* them.
C24_EntryIdsAreDistinct ==
    entries.t = "array" =>
        \A i, j \in 1..Len(entries.v) :
            i # j => Get(entries.v[i], kId) # Get(entries.v[j], kId)

\* C25: whenever the game is in play a chat session is open, whichever way
\* the game was entered, by a new investigation or by loading a save.
C25_PlayingHasSession == gameState = "PLAYING" => chatSession # 0

\* A startNewStory or generateNextEntry call is awaiting its response.
StoryCallPending == \E p \in pending : p.kind \in {"start", "turn"}

\* C26: the processing flag tracks the pending story calls: while App is up,
\* isProcessing is true in every state in which a startNewStory or
\* generateNextEntry call is pending, and false in every state in which
\* none is.
C26_ProcessingTracksPending == ~crashed => (isProcessing <=> StoryCallPending)

\* The texts a narrator's entry of a turn may carry: the narrative of what
\* generateNextEntry returns on some outcome of its model call (its fallback
\* among them), or the connection-error text.
NarratorTexts ==
    {Get(GenerateNextEntryReturn(o, Undefined, Undefined, Undefined), kNarrative) :
        o \in TurnOutcomes}
        \cup {Str(Text("The narrative slips away... (Connection Error)"))}

IsPlayerEntry(e, actionText) ==
    /\ Get(e, kIsUserAction) = Bool(TRUE)
    /\ Get(e, kText) = Str(Text("> ") \o actionText)

IsNarratorEntry(e) ==
    /\ Get(e, kIsUserAction) = Bool(FALSE)
    /\ Get(e, kText) \in NarratorTexts

\* Submitting a turn appends the player's entry, and the narrator's entry
\* with it where generateNextEntry ends without awaiting the model.
SubmissionAddsPlayerEntry ==
    [][ (turns' = turns + 1 /\ entries.t = "array")
           => /\ entries'.t = "array" /\ IsPrefix(entries.v, entries'.v)
              /\ IF pending' = pending
                 THEN /\ Len(entries'.v) = Len(entries.v) + 2
                      /\ Get(entries'.v[Len(entries.v) + 1], kIsUserAction) = Bool(TRUE)
                      /\ IsNarratorEntry(entries'.v[Len(entries.v) + 2])
                 ELSE /\ Len(entries'.v) = Len(entries.v) + 1
                      /\ \A p \in pending' \ pending :
                             IsPlayerEntry(entries'.v[Len(entries.v) + 1], p.actionText) ]_vars

\* Applying a turn's response appends one narrator's entry and nothing else.
ApplicationAddsNarratorEntry ==
    [][ (TurnApplies /\ entries.t = "array")
           => /\ entries'.t = "array" /\ IsPrefix(entries.v, entries'.v)
              /\ Len(entries'.v) = Len(entries.v) + 1
              /\ IsNarratorEntry(entries'.v[Len(entries'.v)]) ]_vars

\* Where the turn applied is the only one submitted so far, its narrator's
\* entry is appended right after its player's entry.
NarratorFollowsPlayer ==
    [][ \A p \in pending :
            (p.kind = "turn" /\ pending' = pending \ {p} /\ turns = 1 /\ entries.t = "array")
                => /\ entries.v # <<>>
                   /\ IsPlayerEntry(LastEntry(entries), p.actionText) ]_vars

\* C27: every turn whose model call completes adds exactly two entries to
\* the transcript: the player's entry, "> " and the action, at submission,
\* and then one narrator's entry carrying the response's narrative, the
\* fallback's or the connection-error text; and with turns run one at a
\* time the narrator's entry directly follows its player's entry.
C27_TurnAddsTwoEntries ==
    /\ SubmissionAddsPlayerEntry
    /\ ApplicationAddsNarratorEntry
    /\ NarratorFollowsPlayer

\* The step is a tick of the loading effect's interval.
LoadingTicks == \E step \in LoadIncrements : LoadingTick(step)

\* C28: the loading animation terminates.  A tick below 100 adds 5 to 19 to
\* loadingProgress and stays in the animation; a tick at 100 or more enters
\* PLAYING with loadingProgress 100, and nothing else leaves the animation;
\* loadingProgress is 0 whenever the animation is entered; the game state is
\* never ERROR; and with the interval ticking the animation leads to
\* PLAYING, unless a render throws and React takes App down with its
\* interval.  Violated in its third part: the continuation of a second
\* startInvestigation, begun before the first one's response arrived, enters
\* the animation again from PLAYING with loadingProgress still 100.
C28_LoadingTerminates ==
    /\ [][ LoadingTicks =>
               IF loadingProgress < LoadingDone
               THEN /\ loadingProgress' - loadingProgress \in MinLoadStep..MaxLoadStep
                    /\ gameState' = "LOADING_ANIMATION"
               ELSE /\ gameState' = "PLAYING"
                    /\ loadingProgress' = LoadingDone ]_vars
    /\ [][ (gameState = "LOADING_ANIMATION" /\ gameState' # "LOADING_ANIMATION")
               => LoadingTicks /\ gameState' = "PLAYING" /\ loadingProgress' = LoadingDone ]_vars
    /\ [][ (gameState # "LOADING_ANIMATION" /\ gameState' = "LOADING_ANIMATION")
               => loadingProgress' = 0 ]_vars
    /\ [](gameState \in {"START", "LOADING_ANIMATION", "PLAYING"})
    /\ (gameState = "LOADING_ANIMATION") ~> (gameState = "PLAYING" \/ crashed)

\* The step removes the record under SAVE_KEY.
RecordRemoved == store # Null /\ store' = Null

\* The record is removed only by confirmDelete, on the ERASE_CONFIRM channel,
\* or by handleLoad.
RemovedOnlyByEraseOrLoad ==
    [][ RecordRemoved => \/ tvChannel = "ERASE_CONFIRM" /\ confirmDelete
                         \/ handleLoad ]_vars

\* C29 as stated: once the mount effect has run, hasSave is true exactly
\* when the store holds a record under SAVE_KEY, and the record is removed
\* only by confirmDelete or by a failed load.
C29_HasSaveIffRecord ==
    /\ [](mounted => (hasSave <=> store # Null))
    /\ RemovedOnlyByEraseOrLoad

\* C29 amended: once the mount effect has run, hasSave is true exactly when
\* the store holds a record under SAVE_KEY that is not the empty string;
\* the record is removed only by confirmDelete or by a failed load.
C29_HasSaveIffNonEmptyRecord ==
    /\ [](mounted => (hasSave <=> (store # Null /\ store.v # <<>>)))
    /\ RemovedOnlyByEraseOrLoad

\* A game was saved, left for the menu and its record erased.
C29_Witness ==
    /\ mounted /\ saves = 1 /\ quits = 1
    /\ store = Null /\ ~hasSave
    /\ tvChannel = "MENU"

\* ------------------------------------------------------------------------
\* Claims about TypewriterText (checked under SpecTypewriterLive)
\* ------------------------------------------------------------------------

\* No timeout of an earlier text is pending, and at most one of this text.
OnlyTimersOfThisText ==
    /\ \A tm \in typeTimers : tm.text = textProp
    /\ Cardinality(typeTimers) <= 1

\* A change of the text prop empties the display.
ChangeRestarts == [][ changes' = changes + 1 => displayedText' = <<>> ]_vars

\* onComplete is called at most once for a text, and once in the end.
CompletesOnce ==
    /\ [](completions <= 1)
    /\ \A t \in TypewriterTexts : (textProp = t) ~> (completions = 1 \/ textProp # t)

\* C30: TypewriterText shows a prefix of its text at every step; with its
\* timeouts firing and the text unchanged it comes to show the whole text,
\* no character skipped or repeated, and then calls onComplete once; a
\* change of the text prop restarts the display from empty, and no timeout
\* of the earlier text adds characters afterwards.
C30_TypewriterShowsPrefix ==
    /\ [](IsPrefix(displayedText, textProp))
    /\ [](completions = 1 => displayedText = textProp)
    /\ \A t \in TypewriterTexts :
           (textProp = t) ~> ((displayedText = t /\ completions = 1) \/ textProp # t)
    /\ CompletesOnce
    /\ ChangeRestarts
    /\ []OnlyTimersOfThisText

====
